---- MODULE Spec2Model ----
(***************************************************************************)
(* Firebird attachment pool (src/src/service/firebird/connection.ts) and   *)
(* the units of work that run through withFirebirdAttachment               *)
(* (src/src/service/firebird/wysylkiRepository.ts).                        *)
(*                                                                         *)
(* Node runs every caller on one event loop: the code between two awaits   *)
(* is one atomic step, and every await is a point where another caller's   *)
(* continuation may run.  Each action below is one such step.              *)
(***************************************************************************)
EXTENDS Integers, Sequences, FiniteSets, TLC

\* ---------------------------------------------------------------- bounds
NumCallers == 3
MaxPoolSize == 2

Callers == 1..NumCallers
\* A lease is identified by the caller whose createLease() call made it.
LeaseIds == Callers
NoLease == 0

VARIABLES
  maxSize,     \* FirebirdAttachmentPool.maxSize
  available,   \* FirebirdAttachmentPool.available (array used as a stack)
  pending,     \* FirebirdAttachmentPool.pending (resolvers, by caller)
  total,       \* FirebirdAttachmentPool.total
  closed,      \* FirebirdAttachmentPool.closed
  att,         \* lease.attachment.isValid as last read, per lease in use
  cli,         \* lease.client.isValid as last read, per lease in use
  sd,          \* leases whose destroyLease task, started by destroyAll, is running
  pc,          \* position of each caller's withFirebirdAttachment call
  lease,       \* the caller's local `lease`
  err,         \* the error currently propagating in the caller's call
  work,        \* how the handler body ended, until release is called
  rb,          \* result of rollbackQuietly in the handler's catch
  recycleArg,  \* the `recycle` argument of the caller's pending release call
  request,     \* the arguments of the exported function under evaluation
  reply        \* what that function has produced so far

vars == <<maxSize, available, pending, total, closed, att, cli, sd,
          pc, lease, err, work, rb, recycleArg, request, reply>>

\* the arguments and the result of the call being evaluated
callVars == <<request, reply>>

poolVars == <<maxSize, available, pending, total, closed>>

\* ---------------------------------------------------------------- helpers
Range(s) == {s[i] : i \in 1..Len(s)}

RemoveAt(s, i) == SubSeq(s, 1, i - 1) \o SubSeq(s, i + 1, Len(s))

\* constructor: this.maxSize = Math.max(1, maxSize)
PoolMaxSize(n) == IF n < 1 THEN 1 ELSE n

isLeaseValidAttachmentOnly(attachmentValid, clientValid) == attachmentValid

\* isLeaseValid: Boolean(lease.attachment?.isValid && lease.client?.isValid)
isLeaseValid(attachmentValid, clientValid) == attachmentValid /\ clientValid

\* isValid is a getter of the driver's object: a handle that was usable when
\* last read may report itself unusable at the next read, never the reverse.
Observed(was) == IF was THEN BOOLEAN ELSE {FALSE}

\* What one evaluation of `attachment.isValid && client.isValid` reads: &&
\* does not read the client once the attachment reports itself unusable.
ObservedFlags(l) ==
  {f \in Observed(att[l]) \X Observed(cli[l]) : ~f[1] => f[2] = cli[l]}

\* available.pop(): the element returned and the array left behind
poppedLease(av) == av[Len(av)]

availableKeptOnPop(av) == av

availableAfterPop(av) == SubSeq(av, 1, Len(av) - 1)

resolverIndexNewest(p) == Len(p)

\* pending.shift(): index of the resolver taken
resolverIndex(p) == 1

mustDestroyIgnoringRecycle(isClosed, recycle, valid) == isClosed \/ ~valid

mustDestroyIgnoringClosed(isClosed, recycle, valid) == ~recycle \/ ~valid

\* release, line 130: the condition under which the lease is destroyed
mustDestroy(isClosed, recycle, valid) == isClosed \/ ~recycle \/ ~valid

\* acquire, line 118: capacity check before createLease
hasCapacity(t, m) == t < m

\* destroyLease without its decrement
totalAfterDestroyKept(t) == t

\* destroyLease, lines 169-171
totalAfterDestroy(t) == IF t > 0 THEN t - 1 ELSE t

\* The *Quietly helpers wrap the driver call in try/catch and log: the
\* value is the error that leaves the helper; `fails` says whether the
\* driver call it makes (when the handle is still valid) throws.
disconnectQuietly(fails) == "none"

disposeQuietly(fails) == "none"

closeResultSetQuietly(fails) == "none"

rollbackRethrowing(fails) == IF fails THEN "rollback" ELSE "none"

rollbackQuietly(fails) == "none"

\* An error raised while another one is propagating (inside catch or
\* finally) replaces it.
Thrown(current, raised) == IF raised # "none" THEN raised ELSE current

finalRecycleNeverAfterFailure(failed, attachmentValid, clientValid) ==
  ~failed /\ attachmentValid /\ clientValid

\* withFirebirdAttachment, lines 198-208: the recycle flag handed to release
finalRecycle(failed, attachmentValid, clientValid) ==
  LET recycle == IF failed THEN attachmentValid /\ clientValid
                 ELSE TRUE /\ attachmentValid /\ clientValid
  IN  recycle /\ attachmentValid /\ clientValid

\* Positions at which the caller holds its lease (between acquire's return
\* and the call of release).
HoldingPcs == {"holding", "resumed", "h_rollback", "release"}

\* The handler is about to run: acquire returned the lease itself
\* ("holding") or its promise was resolved by release, line 137 ("resumed").
Acquired(c) == pc[c] \in {"holding", "resumed"}

Holds(c) == pc[c] \in HoldingPcs

HeldLeases == {lease[c] : c \in {d \in Callers : Holds(d)}}

\* ---------------------------------------------------------------- Init
\* no exported function is being evaluated
NoCall == [op |-> "none"]

PoolInit ==
  /\ maxSize \in {PoolMaxSize(n) : n \in 0..MaxPoolSize}
  /\ available = <<>>
  /\ pending = <<>>
  /\ total = 0
  /\ closed = FALSE
  /\ att = [l \in LeaseIds |-> FALSE]
  /\ cli = [l \in LeaseIds |-> FALSE]
  /\ sd = {}
  /\ pc = [c \in Callers |-> "idle"]
  /\ lease = [c \in Callers |-> NoLease]
  /\ err = [c \in Callers |-> "none"]
  /\ work = [c \in Callers |-> "none"]
  /\ rb = [c \in Callers |-> "none"]
  /\ recycleArg = [c \in Callers |-> TRUE]

Init ==
  /\ PoolInit
  /\ request = NoCall
  /\ reply = NoCall

\* ---------------------------------------------------------------- acquire
\* acquire, lines 105-126, from the top of the for(;;) loop to the next await
AcquireScan(c) ==
  IF available # <<>>
  THEN LET l == poppedLease(available) IN
       \E f \in ObservedFlags(l) :
         /\ available' = availableAfterPop(available)
         /\ lease' = [lease EXCEPT ![c] = l]
         /\ att' = [att EXCEPT ![l] = f[1]]
         /\ cli' = [cli EXCEPT ![l] = f[2]]
         /\ pc' = [pc EXCEPT ![c] =
                     IF isLeaseValid(f[1], f[2]) THEN "holding" ELSE "acq_destroy"]
         /\ UNCHANGED pending
  ELSE IF hasCapacity(total, maxSize)
       THEN /\ pc' = [pc EXCEPT ![c] = "creating"]
            /\ UNCHANGED <<available, pending, lease, att, cli>>
       ELSE /\ pending' = Append(pending, c)
            /\ pc' = [pc EXCEPT ![c] = "pending"]
            /\ UNCHANGED <<available, lease, att, cli>>

\* withFirebirdAttachment line 197 -> acquire lines 100-126.  Every caller
\* runs the same code: callers are numbered in the order of their calls.
withFirebirdAttachment(c) ==
  /\ pc[c] = "idle"
  /\ \A d \in Callers : d < c => pc[d] # "idle"
  /\ IF closed
     THEN /\ pc' = [pc EXCEPT ![c] = "done"]
          /\ err' = [err EXCEPT ![c] = "closed"]
          /\ UNCHANGED <<available, pending, lease, att, cli>>
     ELSE /\ AcquireScan(c)
          /\ UNCHANGED err
  /\ UNCHANGED <<maxSize, total, closed, sd, work, rb, recycleArg>>

\* a call of withFirebirdAttachment by a caller of the pool
AcquireCall(c) ==
  /\ withFirebirdAttachment(c)
  /\ UNCHANGED callVars

\* acquire line 115 has returned: next iteration of the loop
AcquireRescan(c) ==
  /\ pc[c] = "acq_loop"
  /\ AcquireScan(c)
  /\ UNCHANGED <<callVars, maxSize, total, closed, sd, err, work, rb, recycleArg>>

\* acquire lines 119-121: createLease() settles
CreateLeaseDone(c) ==
  /\ pc[c] = "creating"
  /\ \E ok \in BOOLEAN :
       IF ok
       THEN /\ att' = [att EXCEPT ![c] = TRUE]
            /\ cli' = [cli EXCEPT ![c] = TRUE]
            /\ total' = total + 1
            /\ lease' = [lease EXCEPT ![c] = c]
            /\ pc' = [pc EXCEPT ![c] = "holding"]
            /\ UNCHANGED err
       ELSE /\ err' = [err EXCEPT ![c] = "connect"]
            /\ pc' = [pc EXCEPT ![c] = "done"]
            /\ UNCHANGED <<att, cli, total, lease>>
  /\ UNCHANGED <<callVars, maxSize, available, pending, closed, sd, work, rb, recycleArg>>

\* ---------------------------------------------------------------- handler
\* fetchWysylkiByMrn lines 120-149 and 156-158: every statement succeeds,
\* commit, closeResultSetQuietly(null)
HandlerSucceeds(c) ==
  /\ Acquired(c)
  /\ work' = [work EXCEPT ![c] = "ok"]
  /\ pc' = [pc EXCEPT ![c] = "release"]
  /\ UNCHANGED <<callVars, poolVars, att, cli, sd, lease, err, rb, recycleArg>>

\* line 121 throws: transaction is still null, so the catch (lines 150-155)
\* skips the rollback and the finally closes a null result set
StartTransactionFails(c) ==
  /\ Acquired(c)
  /\ work' = [work EXCEPT ![c] = "nostart"]
  /\ err' = [err EXCEPT ![c] = "primary"]
  /\ pc' = [pc EXCEPT ![c] = "release"]
  /\ UNCHANGED <<callVars, poolVars, att, cli, sd, lease, rb, recycleArg>>

\* one of lines 123-145 throws with the transaction open: catch, line 152
StatementFails(c) ==
  /\ Acquired(c)
  /\ work' = [work EXCEPT ![c] = "stmt"]
  /\ err' = [err EXCEPT ![c] = "primary"]
  /\ pc' = [pc EXCEPT ![c] = "h_rollback"]
  /\ UNCHANGED <<callVars, poolVars, att, cli, sd, lease, rb, recycleArg>>

\* lines 152-158: rollbackQuietly settles, `throw error`, and the finally's
\* closeResultSetQuietly settles; the handler's promise rejects
HandlerCleanupDone(c) ==
  /\ pc[c] = "h_rollback"
  /\ \E rbFails \in BOOLEAN, rsFails \in BOOLEAN :
       LET e1 == Thrown(err[c], rollbackQuietly(rbFails))
           e2 == Thrown(e1, closeResultSetQuietly(rsFails)) IN
       /\ rb' = [rb EXCEPT ![c] = IF rbFails THEN "failed" ELSE "ok"]
       /\ err' = [err EXCEPT ![c] = e2]
  /\ pc' = [pc EXCEPT ![c] = "release"]
  /\ UNCHANGED <<callVars, poolVars, att, cli, sd, lease, work, recycleArg>>

\* ---------------------------------------------------------------- release
\* release, lines 129-142, up to its first await; a and k are what the
\* lease's attachment and client report when isLeaseValid reads them
PoolRelease(c, recycle, a, k) ==
  LET l == lease[c] IN
  /\ recycleArg' = [recycleArg EXCEPT ![c] = recycle]
  /\ rb' = [rb EXCEPT ![c] = "none"]
  /\ att' = [att EXCEPT ![l] = a]
  /\ cli' = [cli EXCEPT ![l] = k]
  /\ IF mustDestroy(closed, recycle, isLeaseValid(a, k))
     THEN /\ pc' = [pc EXCEPT ![c] = "rel_destroy"]
          /\ work' = [work EXCEPT ![c] = "none"]
          /\ UNCHANGED <<available, pending, lease>>
     ELSE IF pending # <<>>
          THEN LET i == resolverIndex(pending)
                   w == pending[i] IN
               /\ pending' = RemoveAt(pending, i)
               /\ lease' = [lease EXCEPT ![c] = NoLease, ![w] = l]
               /\ pc' = [pc EXCEPT ![c] = "done", ![w] = "resumed"]
               /\ work' = [work EXCEPT ![c] = "none"]
               /\ UNCHANGED available
          ELSE /\ available' = Append(available, l)
               /\ lease' = [lease EXCEPT ![c] = NoLease]
               /\ pc' = [pc EXCEPT ![c] = "done"]
               /\ work' = [work EXCEPT ![c] = "none"]
               /\ UNCHANGED pending
  /\ UNCHANGED <<callVars, maxSize, total, closed, sd, err>>

\* withFirebirdAttachment lines 202-209: the handler has settled; the flags
\* are read in the same synchronous run as release's own check (line 130)
ReleaseCall(c) ==
  /\ pc[c] = "release"
  /\ \E f \in ObservedFlags(lease[c]) :
       PoolRelease(c, finalRecycle(work[c] # "ok", f[1], f[2]), f[1], f[2])

\* release called on the pool with either value of `recycle`
ReleaseAny(c) ==
  /\ pc[c] = "release"
  /\ \E recycle \in BOOLEAN, f \in ObservedFlags(lease[c]) :
       PoolRelease(c, recycle, f[1], f[2])

\* ---------------------------------------------------------------- destroyLease
\* destroyLease, lines 166-172: the error that leaves it, given which driver
\* calls fail ("none" when it runs to the end)
destroyLeaseError(discFails, dispFails) ==
  LET e1 == disconnectQuietly(discFails)
  IN  IF e1 # "none" THEN e1 ELSE disposeQuietly(dispFails)

\* destroyLease called by acquire (line 115) or release (line 131) settles:
\* disconnect and dispose touch only the lease being destroyed, which no
\* other caller can reach, so the two awaits are one step here.  The lease
\* object is unreachable afterwards: its flags leave the state.
DestroyLeaseDone(c) ==
  /\ pc[c] \in {"acq_destroy", "rel_destroy"}
  /\ LET l == lease[c] IN
     \E discFails \in BOOLEAN, dispFails \in BOOLEAN :
       LET e == destroyLeaseError(discFails, dispFails) IN
       /\ att' = [att EXCEPT ![l] = FALSE]
       /\ cli' = [cli EXCEPT ![l] = FALSE]
       /\ err' = [err EXCEPT ![c] = Thrown(err[c], e)]
       /\ total' = IF e # "none" THEN total ELSE totalAfterDestroy(total)
       /\ pc' = [pc EXCEPT ![c] =
                   IF e = "none" /\ pc[c] = "acq_destroy" THEN "acq_loop" ELSE "done"]
  /\ lease' = [lease EXCEPT ![c] = NoLease]
  /\ recycleArg' = [recycleArg EXCEPT ![c] = TRUE]
  /\ UNCHANGED <<callVars, maxSize, available, pending, closed, sd, work, rb>>

\* ---------------------------------------------------------------- destroyAll
\* destroyAll, lines 144-153 (shutdownFirebirdPool on SIGINT / SIGTERM)
DestroyAll ==
  /\ IF closed
     THEN UNCHANGED <<closed, sd, available>>
     ELSE /\ closed' = TRUE
          /\ sd' = sd \cup Range(available)
          /\ available' = <<>>
  /\ UNCHANGED <<callVars, maxSize, pending, total, att, cli, pc, lease, err, work, rb, recycleArg>>

\* one destroyLease task of destroyAll settles (Promise.allSettled, line 152)
ShutdownDestroyDone(l) ==
  /\ l \in sd
  /\ \E discFails \in BOOLEAN, dispFails \in BOOLEAN :
       total' = IF destroyLeaseError(discFails, dispFails) # "none"
                THEN total ELSE totalAfterDestroy(total)
  /\ att' = [att EXCEPT ![l] = FALSE]
  /\ cli' = [cli EXCEPT ![l] = FALSE]
  /\ sd' = sd \ {l}
  /\ UNCHANGED <<callVars, maxSize, available, pending, closed, pc, lease, err, work, rb, recycleArg>>

\* ---------------------------------------------------------------- specifications
CallerStep(c) ==
  \/ AcquireCall(c)
  \/ AcquireRescan(c)
  \/ CreateLeaseDone(c)
  \/ HandlerSucceeds(c)
  \/ StartTransactionFails(c)
  \/ StatementFails(c)
  \/ HandlerCleanupDone(c)
  \/ DestroyLeaseDone(c)

PoolStep ==
  \/ DestroyAll
  \/ \E l \in LeaseIds : ShutdownDestroyDone(l)

Next ==
  \/ \E c \in Callers : CallerStep(c)
  \/ \E c \in Callers : ReleaseCall(c)
  \/ PoolStep

Spec == Init /\ [][Next]_vars

\* The pool driven directly: release is called with either recycle value.
PoolNext ==
  \/ \E c \in Callers : CallerStep(c)
  \/ \E c \in Callers : ReleaseAny(c)
  \/ PoolStep

PoolSpec == Init /\ [][PoolNext]_vars

\* The event loop runs every continuation that is ready, and every caller
\* of the program eventually makes its call; nothing obliges the process to
\* receive a shutdown signal.
FairSpec ==
  /\ Spec
  /\ \A c \in Callers : WF_vars(CallerStep(c))
  /\ \A c \in Callers : WF_vars(ReleaseCall(c))
  /\ \A l \in LeaseIds : WF_vars(ShutdownDestroyDone(l))

\* ---------------------------------------------------------------- properties
Holders == {c \in Callers : Holds(c)}

Waiters == {c \in Callers : pc[c] = "pending"}

\* C1: the number of live leases, those held by callers plus those in the
\* available set, never exceeds maxSize.
C1_LiveLeasesWithinMaxSize ==
  Cardinality(Holders) + Len(available) <= maxSize

\* C2: when maxSize + 1 callers have called acquire on an open pool and no
\* release has happened yet, then once every one of the calls has either
\* returned a lease or suspended, exactly one is suspended and maxSize hold
\* a lease.
C2_ExactlyOneSuspends ==
  LET started == {c \in Callers : pc[c] # "idle"} IN
  ( /\ ~closed
    /\ Cardinality(started) = maxSize + 1
    /\ started = Holders \cup Waiters )
  => /\ Cardinality(Waiters) = 1
     /\ Cardinality(Holders) = maxSize

\* C3: no lease is held by two callers, and no lease is both in the
\* available set and held by a caller (nor twice in the available set, nor
\* still reachable while it is being destroyed).
C3_LeaseExclusive ==
  /\ \A c \in Holders : \A d \in Holders : c # d => lease[c] # lease[d]
  /\ \A c \in Holders : lease[c] \in LeaseIds /\ lease[c] \notin Range(available)
  /\ Cardinality(Range(available)) = Len(available)
  /\ \A c \in Callers : pc[c] \in {"acq_destroy", "rel_destroy"} =>
       /\ lease[c] \notin Range(available) \cup sd
       /\ \A d \in Holders : lease[d] # lease[c]
  /\ sd \cap (Range(available) \cup {lease[c] : c \in Holders}) = {}

\* A lease made by one caller has been recycled and is held by another
\* caller while a second lease is held at the same time.
C3_Witness ==
  \E c \in Holders : \E d \in Holders :
    c # d /\ lease[c] \notin {c, NoLease} /\ lease[d] # lease[c]

\* C4: while the pool stays open, a caller suspended in acquire is
\* eventually resumed, given that every held lease is eventually released.
C4_SuspendedEventuallyResumed ==
  \A c \in Callers : (pc[c] = "pending") ~> (pc[c] # "pending" \/ closed)

\* The release call of caller c has run up to its first await.
ReleaseStep(c) == pc[c] = "release" /\ pc'[c] # "release"

\* C5: a release with recycle = false sends the lease to destroyLease
\* without touching the waiters or the available set; when that destroyLease
\* settles, total is one less; and the lease is never handed to another
\* caller nor put in the available set.
C5_RecycleFalseDestroys ==
  /\ [][\A c \in Callers : (ReleaseStep(c) /\ ~recycleArg'[c]) =>
          /\ pc'[c] = "rel_destroy"
          /\ lease'[c] = lease[c]
          /\ pending' = pending
          /\ available' = available
          /\ \A d \in Callers \ {c} : lease'[d] = lease[d] /\ pc'[d] = pc[d]]_vars
  /\ [][\A c \in Callers :
          (pc[c] = "rel_destroy" /\ ~recycleArg[c] /\ pc'[c] # "rel_destroy") =>
          /\ pc'[c] = "done"
          /\ total' = total - 1
          /\ lease[c] \notin Range(available')
          /\ \A d \in Callers : lease'[d] # lease[c]]_vars
  /\ [](\A c \in Callers : (pc[c] = "rel_destroy" /\ ~recycleArg[c]) =>
          /\ lease[c] \notin Range(available)
          /\ \A d \in Callers \ {c} : lease[d] # lease[c])

\* A lease whose handles are still usable was released with recycle = false
\* on an open pool while another caller was suspended: it is being destroyed
\* and the waiter is still suspended.
C5_Witness ==
  \E c \in Callers :
    /\ pc[c] = "rel_destroy" /\ ~recycleArg[c]
    /\ att[lease[c]] /\ cli[lease[c]]
    /\ ~closed
    /\ pending # <<>>

\* The release call of caller c recycled the lease (it was not destroyed).
RecycleStep(c) == ReleaseStep(c) /\ pc'[c] = "done"

\* C6: when release recycles a lease and callers are suspended, the caller
\* that suspended first gets the lease, the others keep their order and the
\* available set is untouched; the lease goes to the available set only
\* when nobody is suspended.
C6_FifoHandOff ==
  /\ [][\A c \in Callers : RecycleStep(c) =>
          IF pending # <<>>
          THEN /\ pc'[Head(pending)] = "resumed"
               /\ lease'[Head(pending)] = lease[c]
               /\ pending' = Tail(pending)
               /\ \A w \in Range(Tail(pending)) : pc'[w] = "pending"
               /\ available' = available
          ELSE /\ available' = Append(available, lease[c])
               /\ pending' = pending]_vars
  /\ [][\A c \in Callers : (pc[c] # "pending" /\ pc'[c] = "pending") =>
          pending' = Append(pending, c)]_vars

\* A caller has been resumed by a release while a caller that suspended
\* after it is still suspended.
C6_Witness ==
  \E w \in Callers :
    /\ pc[w] = "resumed"
    /\ lease[w] \notin {w, NoLease}
    /\ pending # <<>>
    /\ available = <<>>

\* C7: once the pool is closed it stays closed; destroyAll sends every
\* available lease to destroyLease and the available set is empty from then
\* on; every acquire call made afterwards fails at once with the pool-closed
\* error, creating and returning nothing; and every release made afterwards
\* sends its lease to destroyLease, handing it to no waiter.
C7_ClosedPool ==
  /\ [](closed => available = <<>>)
  /\ [][closed => closed']_vars
  /\ [][(~closed /\ closed') => (sd' = sd \cup Range(available) /\ available' = <<>>)]_vars
  /\ [][\A c \in Callers : (closed /\ pc[c] = "idle" /\ pc'[c] # "idle") =>
          /\ pc'[c] = "done"
          /\ err'[c] = "closed"
          /\ lease'[c] = NoLease
          /\ total' = total
          /\ pending' = pending]_vars
  /\ [][\A c \in Callers : (closed /\ ReleaseStep(c)) =>
          /\ pc'[c] = "rel_destroy"
          /\ pending' = pending
          /\ \A d \in Callers \ {c} : lease'[d] = lease[d] /\ pc'[d] = pc[d]]_vars

\* After destroyAll: an available lease is being destroyed, a later acquire
\* call has failed with the pool-closed error, and a lease that was in use
\* and still valid has been released and is being destroyed.
C7_Witness ==
  /\ closed
  /\ sd # {}
  /\ \E c \in Callers : pc[c] = "done" /\ err[c] = "closed"
  /\ \E d \in Callers :
       pc[d] = "rel_destroy" /\ recycleArg[d] /\ att[lease[d]] /\ cli[lease[d]]

\* C8: a lease that acquire returns was reported usable by both its
\* attachment and its client when acquire read them, and an available lease
\* found unusable goes to destroyLease, after which the search resumes; a
\* lease that release recycles (to a waiter or to the available set) was
\* reported usable by both handles when release read them, whatever the
\* recycle argument.
C8_InvalidNeverUsed ==
  /\ [][\A c \in Callers :
          (pc[c] \in {"idle", "acq_loop"} /\ pc'[c] = "holding") =>
          att'[lease'[c]] /\ cli'[lease'[c]]]_vars
  /\ [][\A c \in Callers :
          (pc[c] \in {"idle", "acq_loop"} /\ available # <<>> /\ pc'[c] # pc[c]
             /\ ~(closed /\ pc[c] = "idle")) =>
          /\ lease'[c] = poppedLease(available)
          /\ (att'[lease'[c]] /\ cli'[lease'[c]]) <=> (pc'[c] = "holding")
          /\ (~(att'[lease'[c]] /\ cli'[lease'[c]])) <=> (pc'[c] = "acq_destroy")]_vars
  /\ [][\A c \in Callers : (pc[c] = "acq_destroy" /\ pc'[c] # "acq_destroy") =>
          pc'[c] = "acq_loop" /\ lease'[c] = NoLease]_vars
  /\ [][\A c \in Callers : RecycleStep(c) => att'[lease[c]] /\ cli'[lease[c]]]_vars
  /\ [][\A c \in Callers :
          (ReleaseStep(c) /\ ~(att'[lease[c]] /\ cli'[lease[c]])) =>
          pc'[c] = "rel_destroy" /\ available' = available /\ pending' = pending]_vars

\* On an open pool, release was called with recycle = true on a lease whose
\* client reports itself unusable and is destroying it, while an acquire
\* that met an unusable available lease is destroying that one.
C8_Witness ==
  /\ ~closed
  /\ \E c \in Callers :
       pc[c] = "rel_destroy" /\ recycleArg[c] /\ att[lease[c]] /\ ~cli[lease[c]]
  /\ \E d \in Callers : pc[d] = "acq_destroy"

\* C9: the only errors a call of withFirebirdAttachment ends with are the
\* pool-closed error, a connect error and the handler's own error: once the
\* handler has failed, its error is what propagates through rollback,
\* result-set close and release, and is what the caller receives; and a
\* destroyLease always ends by decrementing total, whether or not
\* disconnect or dispose failed.
C9_PrimaryErrorSurvivesCleanup ==
  /\ [](\A c \in Callers :
          /\ err[c] \in {"none", "primary", "closed", "connect"}
          /\ work[c] \in {"nostart", "stmt"} => err[c] = "primary"
          /\ work[c] = "ok" => err[c] = "none")
  /\ [][\A c \in Callers : err[c] = "primary" => err'[c] = "primary"]_vars
  /\ [][\A c \in Callers : (err[c] = "none" /\ pc[c] \in {"release", "rel_destroy"}) =>
          err'[c] = "none"]_vars
  /\ [][\A c \in Callers : (pc[c] = "rel_destroy" /\ pc'[c] # "rel_destroy") =>
          pc'[c] = "done" /\ total' = total - 1]_vars
  /\ [][\A c \in Callers : (pc[c] = "h_rollback" /\ pc'[c] # "h_rollback") =>
          pc'[c] = "release"]_vars

\* A statement failed, the rollback failed too, and the error on its way to
\* the caller is still the statement's, with the lease about to be released.
C9_Witness ==
  \E c \in Callers :
    pc[c] = "release" /\ work[c] = "stmt" /\ rb[c] = "failed" /\ err[c] = "primary"

\* What release read of the lease of caller c in the step just taken.
ValidAtRelease(c) == att'[lease[c]] /\ cli'[lease[c]]

\* The lease of caller c went to the longest-waiting caller or, with nobody
\* waiting, to the available set.
Recycled(c) ==
  /\ pc'[c] = "done"
  /\ IF pending # <<>>
     THEN lease'[Head(pending)] = lease[c] /\ available' = available
     ELSE available' = Append(available, lease[c])

\* C10 as stated: after a failed statement the rollback has been attempted
\* before release is called, recycle is false only if the lease became
\* invalid, a still-valid lease is recycled, and the caller gets the error.
C10_FailedStatementRecycles ==
  [][\A c \in Callers : (ReleaseStep(c) /\ work[c] = "stmt") =>
       /\ rb[c] # "none"
       /\ ~recycleArg'[c] => ~ValidAtRelease(c)
       /\ ValidAtRelease(c) => Recycled(c)
       /\ err'[c] = "primary"]_vars

\* C10 amended: as stated, except that a still-valid lease is recycled only
\* while the pool is open; on a closed pool release destroys it.
C10_FailedStatementRecyclesWhileOpen ==
  [][\A c \in Callers : (ReleaseStep(c) /\ work[c] = "stmt") =>
       /\ rb[c] # "none"
       /\ recycleArg'[c] <=> ValidAtRelease(c)
       /\ (ValidAtRelease(c) /\ ~closed) => Recycled(c)
       /\ (ValidAtRelease(c) /\ closed) => pc'[c] = "rel_destroy"
       /\ ~ValidAtRelease(c) => pc'[c] = "rel_destroy"
       /\ err'[c] = "primary"]_vars

\* Only two callers have run: one's unit of work failed and it got the
\* error, and its lease, still valid, was handed to the other, which had
\* been suspended.
C10_Witness ==
  \E c \in Callers : \E w \in Callers \ {c} :
    /\ pc[c] = "done" /\ err[c] = "primary"
    /\ pc[w] = "resumed" /\ lease[w] = c
    /\ att[c] /\ cli[c]
    /\ \A d \in Callers \ {c, w} : pc[d] = "idle"

\* ================================================================ text
\* A JavaScript string is the sequence of its characters.
DigitChars == <<"0", "1", "2", "3", "4", "5", "6", "7", "8", "9">>

IsDigit(ch) == \E i \in 1..10 : DigitChars[i] = ch

DigitValue(ch) == (CHOOSE i \in 1..10 : DigitChars[i] = ch) - 1

\* the white space String.prototype.trim and \s know, as far as inputs have it
IsSpace(ch) == ch \in {" ", "\t", "\n"}

RECURSIVE trimStart(_)
trimStart(s) ==
  IF s # <<>> /\ IsSpace(Head(s)) THEN trimStart(Tail(s)) ELSE s

RECURSIVE trimEnd(_)
trimEnd(s) ==
  IF s # <<>> /\ IsSpace(s[Len(s)]) THEN trimEnd(SubSeq(s, 1, Len(s) - 1)) ELSE s

\* String.prototype.trim
trim(s) == trimEnd(trimStart(s))

\* Number.parseInt(text, 10) of a run of decimal digits
RECURSIVE parseInt(_)
parseInt(s) ==
  IF s = <<>> THEN 0
  ELSE 10 * parseInt(SubSeq(s, 1, Len(s) - 1)) + DigitValue(s[Len(s)])

\* a value that is not a string (typeof value !== "string"), here undefined
NotAString == <<"undefined">>

\* typeof v === "string" ? v.trim() : ""
normalizedText(v) == IF v = NotAString THEN <<>> ELSE trim(v)

\* ================================================================ dates
\* DATE_INPUT_PATTERN and the pattern of parseIsoDateOnly: /^\d{4}-\d{2}-\d{2}$/
MatchesIsoDatePattern(s) ==
  /\ Len(s) = 10
  /\ \A i \in {1, 2, 3, 4, 6, 7, 9, 10} : IsDigit(s[i])
  /\ s[5] = "-"
  /\ s[8] = "-"

\* day number (days since 1970-01-01) of a day of the proleptic Gregorian
\* calendar, month in 1..12
DaysFromCivil(y, m, d) ==
  LET yy  == IF m <= 2 THEN y - 1 ELSE y
      era == yy \div 400
      yoe == yy - era * 400
      mp  == IF m > 2 THEN m - 3 ELSE m + 9
      doy == (153 * mp + 2) \div 5 + d - 1
      doe == yoe * 365 + yoe \div 4 - yoe \div 100 + doy
  IN  era * 146097 + doe - 719468

\* the calendar day <<year, month, day>> of a day number
CivilFromDays(z) ==
  LET zz  == z + 719468
      era == zz \div 146097
      doe == zz - era * 146097
      yoe == (doe - doe \div 1460 + doe \div 36524 - doe \div 146096) \div 365
      doy == doe - (365 * yoe + yoe \div 4 - yoe \div 100)
      mp  == (5 * doy + 2) \div 153
      d   == doy - (153 * mp + 2) \div 5 + 1
      m   == IF mp < 10 THEN mp + 3 ELSE mp - 9
      y   == yoe + era * 400
  IN  <<IF m <= 2 THEN y + 1 ELSE y, m, d>>

\* new Date(Date.UTC(year, monthIndex, day)) read back with getUTCFullYear,
\* getUTCMonth() + 1 and getUTCDate: Date.UTC takes a year in 0..99 as
\* 1900 + year, and carries a month or day out of range into the next unit
DateUtc(year, monthIndex, day) ==
  LET fullYear == IF year \in 0..99 THEN 1900 + year ELSE year
      ym == fullYear + monthIndex \div 12
      mn == monthIndex % 12
  IN  CivilFromDays(DaysFromCivil(ym, mn + 1, 1) + day - 1)

parseIsoDateOnlyUnchecked(value) ==
  IF ~MatchesIsoDatePattern(value) THEN "Invalid date format" ELSE "none"

\* parseIsoDateOnly: the error it throws ("none" when it returns a Date)
parseIsoDateOnly(value) ==
  IF ~MatchesIsoDatePattern(value) THEN "Invalid date format"
  ELSE LET year  == parseInt(SubSeq(value, 1, 4))
           month == parseInt(SubSeq(value, 6, 7))
           day   == parseInt(SubSeq(value, 9, 10))
       IN  IF DateUtc(year, month - 1, day) # <<year, month, day>>
           THEN "Invalid calendar date"
           ELSE "none"

\* parseIsoDateOnly of ./dateUtils, which rejestrRepository.ts imports: a
\* date that is malformed or not a day of the calendar is a ValidationError
dateUtilsParseIsoDateOnly(value) ==
  IF ~MatchesIsoDatePattern(value) THEN "Invalid date format"
  ELSE LET year  == parseInt(SubSeq(value, 1, 4))
           month == parseInt(SubSeq(value, 6, 7))
           day   == parseInt(SubSeq(value, 9, 10))
       IN  IF month \in 1..12 /\ day >= 1
              /\ CivilFromDays(DaysFromCivil(year, month, day)) = <<year, month, day>>
           THEN "none"
           ELSE "Invalid calendar date"

\* ================================================================ limit
\* The `limit` option: undefined, NaN, an infinity, or a finite number kept
\* in halves (halves = 3 stands for 1.5).
Undefined == [kind |-> "undefined"]

FiniteNumber(h) == [kind |-> "finite", halves |-> h]

NonFiniteNumbers == {[kind |-> k] : k \in {"NaN", "Infinity", "-Infinity"}}

\* Math.trunc of a number of halves
truncHalves(h) == IF h >= 0 THEN h \div 2 ELSE -((-h) \div 2)

\* the largest FIRST n either function puts into its statement
RowLimitCap == 50

\* fetchWysylkiByMrn, lines 90-94: the n of SELECT FIRST n
mrnRowLimit(l, preferXml) ==
  LET fallbackLimit == IF preferXml THEN 1 ELSE 10
      limitCandidate == IF l.kind = "finite" THEN truncHalves(l.halves)
                        ELSE fallbackLimit
      atLeastOne == IF limitCandidate > 1 THEN limitCandidate ELSE 1
  IN  IF atLeastOne < RowLimitCap THEN atLeastOne ELSE RowLimitCap

normaliseLimitUncapped(l, preferXml) ==
  IF l.kind # "finite" THEN Undefined
  ELSE IF truncHalves(l.halves) <= 0 THEN Undefined
       ELSE FiniteNumber(2 * truncHalves(l.halves))

\* normaliseLimit: Math.trunc of NaN or of an infinity is not finite
normaliseLimit(l, preferXml) ==
  IF l = Undefined THEN Undefined
  ELSE IF l.kind # "finite" THEN Undefined
  ELSE LET candidate == truncHalves(l.halves) IN
       IF candidate <= 0 THEN Undefined
       ELSE FiniteNumber(2 * (IF candidate < RowLimitCap THEN candidate
                                                        ELSE RowLimitCap))

\* the statement a function has built: hasFirst tells SELECT FIRST n from
\* a SELECT without FIRST
Statement(hasFirst, n) == [op |-> "sql", hasFirst |-> hasFirst, first |-> n]

\* fetchWysylkiByCreationDate line 220: limit ? `SELECT FIRST ${limit}` : "SELECT"
selectPrefix(limit) ==
  IF limit = Undefined \/ limit.halves = 0
  THEN Statement(FALSE, 0)
  ELSE Statement(TRUE, limit.halves \div 2)

\* ================================================================ fetch
\* The caller whose call of an exported function is followed.
Client == 1

\* a function throws on its input, before withFirebirdAttachment is called
RejectInput ==
  /\ pc' = [pc EXCEPT ![Client] = "done"]
  /\ err' = [err EXCEPT ![Client] = "validation"]
  /\ UNCHANGED <<poolVars, att, cli, sd, lease, work, rb, recycleArg, callVars>>

\* fetchWysylkiByMrn, lines 84-116
fetchWysylkiByMrn ==
  /\ request.op = "fetchWysylkiByMrn"
  /\ reply = NoCall
  /\ pc[Client] = "idle"
  /\ IF normalizedText(request.arg) = <<>>
     THEN RejectInput
     ELSE /\ reply' = Statement(TRUE, mrnRowLimit(request.limit, request.preferXml))
          /\ withFirebirdAttachment(Client)
          /\ UNCHANGED request

\* fetchWysylkiByCreationDate, lines 195-229; buildDateQueryConditions
\* (line 49) calls parseIsoDateOnly
fetchWysylkiByCreationDate ==
  /\ request.op = "fetchWysylkiByCreationDate"
  /\ reply = NoCall
  /\ pc[Client] = "idle"
  /\ LET normalizedDate == normalizedText(request.arg) IN
     IF \/ normalizedDate = <<>>
        \/ ~MatchesIsoDatePattern(normalizedDate)
        \/ parseIsoDateOnly(normalizedDate) # "none"
     THEN RejectInput
     ELSE /\ reply' = selectPrefix(normaliseLimit(request.limit, request.preferXml))
          /\ withFirebirdAttachment(Client)
          /\ UNCHANGED request

\* fetchRejestrEntriesByDeclarationDate, rejestrRepository.ts lines 205-217
fetchRejestrEntriesByDeclarationDate ==
  /\ request.op = "fetchRejestrEntriesByDeclarationDate"
  /\ reply = NoCall
  /\ pc[Client] = "idle"
  /\ LET normalizedDate == normalizedText(request.arg) IN
     IF \/ normalizedDate = <<>>
        \/ dateUtilsParseIsoDateOnly(normalizedDate) # "none"
     THEN RejectInput
     ELSE /\ reply' = Statement(FALSE, 0)
          /\ withFirebirdAttachment(Client)
          /\ UNCHANGED request

\* ---------------------------------------------------------------- inputs
\* months 0..MaxMonth and halves up to MaxLimitHalves are tried
MaxMonth == 13
MaxLimitHalves == 104

\* n written with `width` decimal digits
RECURSIVE DecimalText(_, _)
DecimalText(n, width) ==
  IF width = 0 THEN <<>>
  ELSE Append(DecimalText(n \div 10, width - 1), DigitChars[(n % 10) + 1])

IsoText(y, m, d) ==
  DecimalText(y, 4) \o <<"-">> \o DecimalText(m, 2) \o <<"-">> \o DecimalText(d, 2)

YearInputs == {25, 1900, 2024, 2025}
DayInputs == {0, 1, 28, 29, 30, 31, 32}

ShapedDateInputs ==
  {IsoText(y, m, d) : y \in YearInputs, m \in 0..MaxMonth, d \in DayInputs}

BlankInputs == {NotAString, <<>>, <<" ">>, <<" ", "\t", " ">>}

MalformedDateInputs ==
  { <<"2", "0", "2", "5", "-", "1", "-", "3">>,
    <<"2", "0", "2", "5", "0", "1", "0", "3">>,
    <<"2", "0", "2", "5", "/", "0", "1", "/", "0", "3">>,
    <<"0", "3", "-", "0", "1", "-", "2", "0", "2", "5">>,
    <<"2", "0", "2", "5", "-", "0", "1", "-", "0", "3", "T">>,
    <<"2", "0", "2", "5", "-", "0", "1", "-", "0", " ">>,
    <<"2", "0", "2", "5", "-", "0", "1", "-", "3", "x">>,
    <<"t", "o", "d", "a", "y">> }

PaddedDateInputs ==
  { <<" ">> \o IsoText(2025, 1, 3) \o <<" ">>,
    <<"\t">> \o IsoText(2025, 2, 30) }

DateInputs ==
  ShapedDateInputs \cup BlankInputs \cup MalformedDateInputs \cup PaddedDateInputs

MrnInputs ==
  BlankInputs \cup { <<"2", "5", "P", "L">>, <<" ", "2", "5", "P", "L", " ">> }

LimitInputs ==
  {Undefined} \cup NonFiniteNumbers
    \cup {FiniteNumber(h) : h \in (-3)..MaxLimitHalves}

CallOf(op, arg, limit, preferXml) ==
  [op |-> op, arg |-> arg, limit |-> limit, preferXml |-> preferXml]

FetchRequests ==
  {CallOf("fetchWysylkiByMrn", a, l, x) :
     a \in MrnInputs, l \in LimitInputs, x \in BOOLEAN}
  \cup {CallOf("fetchWysylkiByCreationDate", a, Undefined, FALSE) : a \in DateInputs}
  \cup {CallOf("fetchWysylkiByCreationDate", a, l, x) :
          a \in {IsoText(2025, 1, 3), IsoText(2025, 2, 30)},
          l \in LimitInputs, x \in BOOLEAN}
  \cup {CallOf("fetchRejestrEntriesByDeclarationDate", a, Undefined, FALSE) :
          a \in DateInputs}

\* ---------------------------------------------------------------- FetchSpec
\* One call of an exported fetch function, followed from its first line
\* through the unit of work it runs on the pool.
FetchInit ==
  /\ PoolInit
  /\ request \in FetchRequests
  /\ reply = NoCall

FetchNext ==
  \/ fetchWysylkiByMrn
  \/ fetchWysylkiByCreationDate
  \/ fetchRejestrEntriesByDeclarationDate
  \/ CreateLeaseDone(Client)
  \/ HandlerSucceeds(Client)
  \/ StartTransactionFails(Client)
  \/ StatementFails(Client)
  \/ HandlerCleanupDone(Client)
  \/ ReleaseCall(Client)
  \/ DestroyLeaseDone(Client)
  \/ PoolStep

FetchSpec == FetchInit /\ [][FetchNext]_vars

\* ================================================================ C11, C12
\* the length of month m of year y in the Gregorian calendar
MonthLength(y, m) ==
  IF m = 2
  THEN IF (y % 4 = 0 /\ y % 100 # 0) \/ y % 400 = 0 THEN 29 ELSE 28
  ELSE IF m \in {4, 6, 9, 11} THEN 30 ELSE 31

NonCalendarDateInputs ==
  {IsoText(y, m, d) : y \in YearInputs,
                      m \in (0..MaxMonth) \ (1..12),
                      d \in DayInputs}
  \cup UNION {{IsoText(y, m, d) : d \in {e \in DayInputs : e < 1 \/ e > MonthLength(y, m)}} :
                y \in YearInputs, m \in 1..12}
  \cup {<<"\t">> \o IsoText(2025, 2, 30)}

\* the request carries an input the function must refuse
RefusedInput ==
  \/ /\ request.op = "fetchWysylkiByMrn"
     /\ request.arg \in BlankInputs
  \/ /\ request.op \in {"fetchWysylkiByCreationDate",
                        "fetchRejestrEntriesByDeclarationDate"}
     /\ request.arg \in BlankInputs \cup MalformedDateInputs \cup NonCalendarDateInputs

LimitAtLeastOne == request.limit.kind = "finite" /\ request.limit.halves >= 2

\* reply.first is min(trunc(limit), 50)
FirstIsCappedLimit ==
  /\ reply.hasFirst
  /\ reply.first \in 1..50
  /\ 2 * reply.first <= request.limit.halves
  /\ reply.first = 50 \/ request.limit.halves - 2 * reply.first < 2

\* C12 as claimed: for every value of limit both functions ask for at most
\* 50 rows, and for at most `limit` rows when 1 <= limit <= 50.
C12_AtMostFiftyRows ==
  (reply.op = "sql" /\ request.op \in {"fetchWysylkiByMrn", "fetchWysylkiByCreationDate"}) =>
    /\ reply.hasFirst
    /\ reply.first \in 1..50
    /\ (LimitAtLeastOne /\ request.limit.halves <= 100) =>
         2 * reply.first <= request.limit.halves

\* C12 amended: fetchWysylkiByMrn always asks for 1..50 rows; for a finite
\* limit >= 1 both functions ask for min(trunc(limit), 50) rows; for any
\* other limit fetchWysylkiByCreationDate sends a statement with no FIRST.
C12_RowLimitWhenGiven ==
  /\ (reply.op = "sql" /\ request.op = "fetchWysylkiByMrn") =>
       /\ reply.hasFirst
       /\ reply.first \in 1..50
       /\ LimitAtLeastOne => FirstIsCappedLimit
  /\ (reply.op = "sql" /\ request.op = "fetchWysylkiByCreationDate") =>
       IF LimitAtLeastOne THEN FirstIsCappedLimit ELSE ~reply.hasFirst

\* fetchWysylkiByCreationDate was given a limit above 50 and asked for 50
C12_Witness ==
  /\ request.op = "fetchWysylkiByCreationDate"
  /\ request.limit = FiniteNumber(MaxLimitHalves)
  /\ reply = Statement(TRUE, 50)

\* ================================================================ decoders
\* xmlDecoders.ts.  A Buffer is the sequence of its bytes (0..255); a decoded
\* string is the sequence of its UTF-16 code units.

\* Buffer.toString("utf16le"): two bytes per code unit, low byte first; a
\* last byte without a partner is dropped
RECURSIVE toStringUtf16le(_)
toStringUtf16le(b) ==
  IF Len(b) < 2 THEN <<>>
  ELSE <<b[1] + 256 * b[2]>> \o toStringUtf16le(SubSeq(b, 3, Len(b)))

\* lines 117-123: the bytes after the BOM with each pair swapped, written
\* into a buffer of length - 2 bytes; a last byte without a partner becomes
\* the pair (0, byte) whose second write falls outside the buffer
RECURSIVE swapPairs(_)
swapPairs(b) ==
  IF b = <<>> THEN <<>>
  ELSE IF Len(b) = 1 THEN <<0>>
  ELSE <<b[2], b[1]>> \o swapPairs(SubSeq(b, 3, Len(b)))

\* the U+FFFD a decoder puts in place of a byte it cannot decode
ReplacementCharacter == 65533

IsContinuationByte(x) == x \in 128..191

\* Buffer.toString("utf8") for buffers of one- and two-byte sequences and of
\* bytes that start no sequence: each byte that cannot be decoded becomes
\* U+FFFD.  (Lead bytes E0..F4 do not occur in the inputs.)
RECURSIVE toStringUtf8(_)
toStringUtf8(b) ==
  IF b = <<>> THEN <<>>
  ELSE IF b[1] < 128 THEN <<b[1]>> \o toStringUtf8(Tail(b))
  ELSE IF b[1] \in 194..223 /\ Len(b) >= 2 /\ IsContinuationByte(b[2])
       THEN <<(b[1] - 192) * 64 + (b[2] - 128)>> \o toStringUtf8(SubSeq(b, 3, Len(b)))
       ELSE <<ReplacementCharacter>> \o toStringUtf8(Tail(b))

\* Buffer.from(text, "utf8") for code units outside the surrogate range
RECURSIVE bufferFromUtf8(_)
bufferFromUtf8(t) ==
  IF t = <<>> THEN <<>>
  ELSE LET u == t[1] IN
       (IF u < 128 THEN <<u>>
        ELSE IF u < 2048 THEN <<192 + (u \div 64), 128 + (u % 64)>>
        ELSE <<224 + (u \div 4096), 128 + ((u \div 64) % 64), 128 + (u % 64)>>)
       \o bufferFromUtf8(Tail(t))

\* the value of each base64 digit as a character code: A-Z a-z 0-9 + /
base64Digit(v) ==
  IF v < 26 THEN 65 + v
  ELSE IF v < 52 THEN 97 + (v - 26)
  ELSE IF v < 62 THEN 48 + (v - 52)
  ELSE IF v = 62 THEN 43 ELSE 47

\* the character "="
Base64Pad == 61

\* Buffer.toString("base64")
RECURSIVE toStringBase64(_)
toStringBase64(b) ==
  IF b = <<>> THEN <<>>
  ELSE IF Len(b) = 1
  THEN <<base64Digit(b[1] \div 4), base64Digit((b[1] % 4) * 16), Base64Pad, Base64Pad>>
  ELSE IF Len(b) = 2
  THEN <<base64Digit(b[1] \div 4),
         base64Digit(((b[1] % 4) * 16) + (b[2] \div 16)),
         base64Digit((b[2] % 16) * 4), Base64Pad>>
  ELSE <<base64Digit(b[1] \div 4),
         base64Digit(((b[1] % 4) * 16) + (b[2] \div 16)),
         base64Digit(((b[2] % 16) * 4) + (b[3] \div 64)),
         base64Digit(b[3] % 64)>> \o toStringBase64(SubSeq(b, 4, Len(b)))

\* text.replace(/\u0000+/g, "")
RECURSIVE stripNul(_)
stripNul(t) ==
  IF t = <<>> THEN <<>>
  ELSE IF t[1] = 0 THEN stripNul(Tail(t)) ELSE <<t[1]>> \o stripNul(Tail(t))

\* String.prototype.indexOf, 0-based; -1 when the needle does not occur
indexOf(t, needle) ==
  LET hits == {i \in 1..(Len(t) - Len(needle) + 1) :
                 SubSeq(t, i, i + Len(needle) - 1) = needle}
  IN  IF hits = {} THEN -1 ELSE (CHOOSE i \in hits : \A j \in hits : i <= j) - 1

\* String.prototype.slice(start) for 0 <= start
sliceFrom(t, start) == SubSeq(t, start + 1, Len(t))

\* the characters "<" and "<?xml"
LessThanSign == <<60>>
XmlDeclarationStart == <<60, 63, 120, 109, 108>>

\* lines 127-139: how many zero bytes sit at even (0-based) and odd offsets
evenZeroCount(b) == Cardinality({i \in 1..Len(b) : b[i] = 0 /\ (i - 1) % 2 = 0})
oddZeroCount(b) == Cardinality({i \in 1..Len(b) : b[i] = 0 /\ (i - 1) % 2 = 1})

\* lines 141-143: zeroCount > 0 and zeroCount / length >= 0.2
looksLikeUtf16(b) ==
  LET zeroCount == evenZeroCount(b) + oddZeroCount(b)
  IN  zeroCount > 0 /\ 5 * zeroCount >= Len(b)

hasUtf16LeBomIgnored(b) == FALSE

\* line 110
hasUtf16LeBom(b) == Len(b) >= 2 /\ b[1] = 255 /\ b[2] = 254

\* line 115
hasUtf16BeBom(b) == Len(b) >= 2 /\ b[1] = 254 /\ b[2] = 255

\* lines 167-176, reached when the UTF-8 text does not encode back to the buffer
recoverMarkup(utf8Value) ==
  LET cleanedUtf8 == stripNul(utf8Value)
      xmlStart == indexOf(cleanedUtf8, XmlDeclarationStart)
      firstTagIndex == indexOf(cleanedUtf8, LessThanSign)
  IN  IF firstTagIndex < 0 THEN <<>>
      ELSE IF xmlStart >= 0 THEN sliceFrom(cleanedUtf8, xmlStart)
      ELSE sliceFrom(cleanedUtf8, firstTagIndex)

\* bufferToUtf8OrBase64, lines 105-179
bufferToUtf8OrBase64(b) ==
  IF Len(b) = 0 THEN <<>>
  ELSE IF hasUtf16LeBom(b) THEN toStringUtf16le(SubSeq(b, 3, Len(b)))
  ELSE IF hasUtf16BeBom(b)
       THEN toStringUtf16le(swapPairs(SubSeq(b, 3, Len(b))))
  ELSE IF looksLikeUtf16(b)
       THEN IF oddZeroCount(b) >= evenZeroCount(b)
            THEN toStringUtf16le(b)
            ELSE toStringUtf16le(swapPairs(b))
  ELSE LET utf8Value == toStringUtf8(b) IN
       IF bufferFromUtf8(utf8Value) = b THEN utf8Value
       ELSE IF indexOf(stripNul(utf8Value), LessThanSign) >= 0
            THEN recoverMarkup(utf8Value)
            ELSE toStringBase64(b)

\* ---------------------------------------------------------------- decodeZlibBuffer
\* What zlib's inflateSync, inflateRawSync and gunzipSync do with the buffer
\* is part of the call's input: each either throws or returns its output.
Threw == [threw |-> TRUE, output |-> <<>>]

Returned(output) == [threw |-> FALSE, output |-> output]

inflateCandidatesRawFirst == <<"inflateRawSync", "inflateSync", "gunzipSync">>

\* line 79
inflateCandidates == <<"inflateSync", "inflateRawSync", "gunzipSync">>

\* lines 82-89: the candidates tried, in order, up to the first that returns
RECURSIVE tryCandidates(_, _, _)
tryCandidates(candidates, inflated, tried) ==
  IF candidates = <<>>
  THEN [found |-> FALSE, output |-> <<>>, attempts |-> tried]
  ELSE LET inflate == Head(candidates) IN
       IF inflated[inflate].threw
       THEN tryCandidates(Tail(candidates), inflated, Append(tried, inflate))
       ELSE [found |-> TRUE, output |-> inflated[inflate].output,
             attempts |-> Append(tried, inflate)]

fallbackUsableWhenEmpty(fallbackText) == Len(fallbackText) = 0

\* line 92
fallbackUsable(fallbackText) == Len(fallbackText) > 0

\* decodeZlibBuffer, lines 70-103: the DecodedXmlResult returned or the
\* Error thrown
decodeZlibBuffer(isNull, buffer, context, inflated) ==
  IF isNull THEN [op |-> "null"]
  ELSE IF Len(buffer) = 0
  THEN [op |-> "decoded", decoded |-> <<>>, byteLength |-> 0, attempts |-> <<>>]
  ELSE LET r == tryCandidates(inflateCandidates, inflated, <<>>) IN
       IF r.found
       THEN [op |-> "decoded", decoded |-> bufferToUtf8OrBase64(r.output),
             byteLength |-> Len(r.output), attempts |-> r.attempts]
       ELSE LET fallbackText == bufferToUtf8OrBase64(buffer) IN
            IF fallbackUsable(fallbackText)
            THEN [op |-> "decoded", decoded |-> fallbackText,
                  byteLength |-> Len(buffer), attempts |-> r.attempts]
            ELSE [op |-> "threw", context |-> context, byteLength |-> Len(buffer),
                  lastError |-> r.attempts[Len(r.attempts)], attempts |-> r.attempts]

\* ---------------------------------------------------------------- inputs
\* buffers are put together from at most MaxChunks chunks, texts hold at
\* most MaxTextLen code units
MaxChunks == 3
MaxTextLen == 2

\* BOMs, NUL, "<", "<?xml", "A", the two bytes of U+00E9 in UTF-8, and
\* bytes that are no UTF-8
Chunks ==
  { <<255, 254>>, <<254, 255>>, <<0>>, <<60>>, <<60, 63, 120, 109, 108>>,
    <<65>>, <<195, 169>>, <<255>>, <<169>> }

RECURSIVE ChunkedBuffers(_)
ChunkedBuffers(n) ==
  IF n = 0 THEN {<<>>}
  ELSE LET shorter == ChunkedBuffers(n - 1) IN
       shorter \cup {b \o c : b \in shorter, c \in Chunks}

\* code units: "A", "<", U+00E9, U+0100 and U+4100 (one zero byte each)
TextUnits == {65, 60, 233, 256, 16640}

RECURSIVE TextsUpTo(_)
TextsUpTo(n) ==
  IF n = 0 THEN {<<>>}
  ELSE LET shorter == TextsUpTo(n - 1) IN
       shorter \cup {Append(t, u) : t \in shorter, u \in TextUnits}

Texts == TextsUpTo(MaxTextLen)

\* the bytes of a text in UTF-16, either byte order
RECURSIVE Utf16Bytes(_, _)
Utf16Bytes(t, littleEndian) ==
  IF t = <<>> THEN <<>>
  ELSE (IF littleEndian THEN <<t[1] % 256, t[1] \div 256>>
                        ELSE <<t[1] \div 256, t[1] % 256>>)
       \o Utf16Bytes(Tail(t), littleEndian)

EncodedBuffers ==
  UNION {{ <<255, 254>> \o Utf16Bytes(t, TRUE), <<254, 255>> \o Utf16Bytes(t, FALSE),
           Utf16Bytes(t, TRUE), Utf16Bytes(t, FALSE), bufferFromUtf8(t) } : t \in Texts}

Buffers == ChunkedBuffers(MaxChunks) \cup EncodedBuffers

\* what a decompressor may have returned: plain text, or UTF-16 with a BOM
InflateOutputs == { <<65>>, <<66, 66>>, <<255, 254, 67, 0>>, <<>> }

InflateOutcomes == {Threw} \cup {Returned(o) : o \in InflateOutputs}

\* a gzip member is neither a zlib stream nor a raw deflate stream; a buffer
\* can be both a zlib stream and a raw deflate stream
InflateResults ==
  {[inflateSync |-> z, inflateRawSync |-> r, gunzipSync |-> Threw] :
     z \in InflateOutcomes, r \in InflateOutcomes}
  \cup {[inflateSync |-> Threw, inflateRawSync |-> Threw, gunzipSync |-> g] :
          g \in InflateOutcomes}

AllThrew == [inflateSync |-> Threw, inflateRawSync |-> Threw, gunzipSync |-> Threw]

Contexts == {"odpowiedzXml", "dokumentXml"}

DecodeCall(op, isNull, buffer, context, inflated) ==
  [op |-> op, isNull |-> isNull, buffer |-> buffer, context |-> context,
   inflated |-> inflated]

DecodeRequests ==
  {DecodeCall("bufferToUtf8OrBase64", FALSE, b, "", AllThrew) : b \in Buffers}
  \cup {DecodeCall("decodeZlibBuffer", FALSE, b, c, AllThrew) :
          b \in Buffers, c \in Contexts}
  \cup {DecodeCall("decodeZlibBuffer", FALSE, b, "odpowiedzXml", i) :
          b \in {<<120, 1>>, <<31, 139>>, <<>>}, i \in InflateResults}
  \cup {DecodeCall("decodeZlibBuffer", TRUE, <<>>, "odpowiedzXml", AllThrew)}

\* ---------------------------------------------------------------- DecodeSpec
DecodeInit ==
  /\ PoolInit
  /\ request \in DecodeRequests
  /\ reply = NoCall

DecodeBuffer ==
  /\ request.op = "decodeZlibBuffer"
  /\ reply = NoCall
  /\ reply' = decodeZlibBuffer(request.isNull, request.buffer, request.context,
                               request.inflated)
  /\ UNCHANGED <<poolVars, att, cli, sd, pc, lease, err, work, rb, recycleArg, request>>

DetectEncoding ==
  /\ request.op = "bufferToUtf8OrBase64"
  /\ reply = NoCall
  /\ reply' = [op |-> "text", text |-> bufferToUtf8OrBase64(request.buffer)]
  /\ UNCHANGED <<poolVars, att, cli, sd, pc, lease, err, work, rb, recycleArg, request>>

DecodeNext == DecodeBuffer \/ DetectEncoding

DecodeSpec == DecodeInit /\ [][DecodeNext]_vars

\* ================================================================ C13, C14, C15
\* the text of each output a decompressor may return: "A", "BB", and "C"
\* written in UTF-16LE behind a byte-order mark
TextOfOutput(o) ==
  IF o = <<255, 254, 67, 0>> THEN <<67>> ELSE o

DecodedSomething ==
  /\ request.op = "decodeZlibBuffer"
  /\ reply # NoCall
  /\ ~request.isNull
  /\ request.buffer # <<>>

\* With the candidates taken in `order`, the first that returns decides the
\* result and no later candidate is attempted.
FirstSuccessWins(order) ==
  (DecodedSomething /\ request.inflated # AllThrew) =>
    LET w == CHOOSE i \in 1..3 :
               /\ ~request.inflated[order[i]].threw
               /\ \A j \in 1..(i - 1) : request.inflated[order[j]].threw
        output == request.inflated[order[w]].output
    IN  /\ reply.op = "decoded"
        /\ reply.decoded = TextOfOutput(output)
        /\ reply.byteLength = Len(output)
        /\ reply.attempts = SubSeq(order, 1, w)

\* C13 as claimed: the candidates are tried in the order raw-deflate,
\* zlib-wrapped, gzip; the first that succeeds determines the result.
C13_RawDeflateFirst ==
  FirstSuccessWins(<<"inflateRawSync", "inflateSync", "gunzipSync">>)

\* C13 amended: the candidates are tried in the order zlib-wrapped,
\* raw-deflate, gzip; the first that succeeds determines the result (its
\* output goes through encoding detection, byteLength is the decompressed
\* length) and later candidates are not attempted.
C13_ZlibWrappedFirst ==
  FirstSuccessWins(<<"inflateSync", "inflateRawSync", "gunzipSync">>)

\* a buffer that inflates both as a zlib stream and as raw deflate, to
\* different outputs, was decoded
C13_Witness ==
  /\ DecodedSomething
  /\ request.inflated.inflateSync = Returned(<<65>>)
  /\ request.inflated.inflateRawSync = Returned(<<66, 66>>)
  /\ reply.op = "decoded"

\* every byte is a printable ASCII character other than NUL
IsPlainAscii(b) == b # <<>> /\ \A i \in 1..Len(b) : b[i] \in 1..127

\* C14: when all three candidates fail on a non-empty input, the result is
\* the encoding-detected text of the raw bytes with byteLength the input
\* length, and no error, whenever that text is non-empty (a plain-ASCII
\* buffer gives its literal text); an error, carrying the context and the
\* byte length, is raised only when all three candidates threw and the
\* fallback text is empty.
C14_FallbackToRawBytes ==
  /\ (DecodedSomething /\ request.inflated = AllThrew) =>
       LET text == bufferToUtf8OrBase64(request.buffer) IN
       /\ text # <<>> =>
            /\ reply.op = "decoded"
            /\ reply.decoded = text
            /\ reply.byteLength = Len(request.buffer)
       /\ IsPlainAscii(request.buffer) =>
            /\ reply.op = "decoded"
            /\ reply.decoded = request.buffer
  /\ (request.op = "decodeZlibBuffer" /\ reply # NoCall /\ reply.op = "threw") =>
       /\ request.inflated = AllThrew
       /\ ~request.isNull
       /\ request.buffer # <<>>
       /\ bufferToUtf8OrBase64(request.buffer) = <<>>
       /\ reply.context = request.context
       /\ reply.byteLength = Len(request.buffer)

\* a buffer holding nothing but a byte-order mark, which no candidate could
\* inflate, raised the error
DecodeFailureRaised ==
  /\ DecodedSomething
  /\ request.buffer = <<255, 254>>
  /\ reply.op = "threw"

\* a plain-ASCII buffer that no candidate could inflate came back as text
C14_Witness ==
  /\ DecodedSomething
  /\ request.inflated = AllThrew
  /\ request.buffer = <<60, 65>>
  /\ reply.op = "decoded"

\* the characters of base64
Base64Alphabet ==
  (65..90) \cup (97..122) \cup (48..57) \cup {43, 47}

\* the value of a base64 character ("=" counts as 0)
Base64Value(ch) ==
  IF ch \in 65..90 THEN ch - 65
  ELSE IF ch \in 97..122 THEN ch - 71
  ELSE IF ch \in 48..57 THEN ch + 4
  ELSE IF ch = 43 THEN 62
  ELSE IF ch = 47 THEN 63 ELSE 0

\* the bytes a base64 text stands for
RECURSIVE Base64Bytes(_)
Base64Bytes(t) ==
  IF Len(t) < 4 THEN <<>>
  ELSE LET n == Base64Value(t[1]) * 262144 + Base64Value(t[2]) * 4096
                  + Base64Value(t[3]) * 64 + Base64Value(t[4])
           three == <<n \div 65536, (n \div 256) % 256, n % 256>>
           kept == IF t[3] = 61 THEN 1 ELSE IF t[4] = 61 THEN 2 ELSE 3
       IN  SubSeq(three, 1, kept) \o Base64Bytes(SubSeq(t, 5, Len(t)))

IsBase64Of(t, b) ==
  /\ Len(t) = 4 * ((Len(b) + 2) \div 3)
  /\ \A i \in 1..Len(t) : t[i] \in Base64Alphabet \cup {61}
  /\ Base64Bytes(t) = b

StartsWith(t, prefix) ==
  Len(t) >= Len(prefix) /\ SubSeq(t, 1, Len(prefix)) = prefix

Detected == request.op = "bufferToUtf8OrBase64" /\ reply # NoCall

\* the buffer has no byte-order mark, no zero byte, and is no UTF-8: it
\* holds FF, a continuation byte that continues nothing, or a lead byte
\* that nothing continues
Undecodable(b) ==
  /\ Len(b) > 0
  /\ ~StartsWith(b, <<255, 254>>)
  /\ ~StartsWith(b, <<254, 255>>)
  /\ \A i \in 1..Len(b) : b[i] # 0
  /\ \E i \in 1..Len(b) :
       \/ b[i] = 255
       \/ b[i] = 169 /\ (i = 1 \/ b[i - 1] # 195)
       \/ b[i] = 195 /\ (i = Len(b) \/ b[i + 1] # 169)

\* C15: bufferToUtf8OrBase64 returns the result of the first strategy that
\* applies: (1) behind a UTF-16 LE or BE byte-order mark the rest is decoded
\* in that byte order, without the mark, so FF FE followed by the UTF-16LE
\* bytes of a text gives exactly that text; (2) without a mark, UTF-16 is
\* recognised by its zero bytes; (3) bytes that are the UTF-8 encoding of a
\* text give that text; (4) bytes that are no UTF-8 give the text from
\* "<?xml", or else from the first "<"; (5) everything else is base64 of
\* the raw bytes.
C15_StrategyOrder ==
  Detected =>
    LET b == request.buffer
        text == reply.text
    IN  /\ \A t \in Texts :
             /\ b = <<255, 254>> \o Utf16Bytes(t, TRUE) => text = t
             /\ b = <<254, 255>> \o Utf16Bytes(t, FALSE) => text = t
        /\ \A t \in Texts :
             (t # <<>> /\ \A i \in 1..Len(t) : t[i] \in 1..127) =>
               /\ b = Utf16Bytes(t, TRUE) => text = t
               /\ b = Utf16Bytes(t, FALSE) => text = t
        /\ b = <<65, 195, 169, 60>> => text = <<65, 233, 60>>
        /\ \A t \in Texts :
             (\A i \in 1..Len(t) : t[i] \in 1..2047) =>
               (b = bufferFromUtf8(t) => text = t)
        /\ Undecodable(b) =>
             IF \E i \in 1..Len(b) : b[i] = 60
             THEN /\ StartsWith(text, <<60>>)
                  /\ (\E i \in 1..Len(b) : StartsWith(SubSeq(b, i, Len(b)), XmlDeclarationStart))
                       => StartsWith(text, XmlDeclarationStart)
             ELSE IsBase64Of(text, b)

\* FF FE followed by the UTF-16LE bytes of "A" and of U+4100 (whose low byte
\* is zero) was decoded
C15_Witness ==
  /\ Detected
  /\ request.buffer = <<255, 254, 65, 0, 0, 65>>
  /\ reply.text = <<65, 16640>>

\* bytes that are no text at all came back as base64
C15_Base64Reached ==
  /\ Detected
  /\ request.buffer = <<255, 169>>
  /\ reply.text = <<47, 54, 107, 61>>

\* ================================================================ parsed XML
\* wysylkaXml.ts.  What xmlParser.parse returns is a tree of JavaScript
\* values; an object keeps its keys in insertion order.
JsUndefined == [type |-> "undefined"]
JsNull == [type |-> "null"]
JsString(text) == [type |-> "string", text |-> text]
\* a number or a boolean, with the text String(value) gives
JsNumber(text) == [type |-> "number", text |-> text]
JsArray(items) == [type |-> "array", items |-> items]
JsObject(keys, values) == [type |-> "object", keys |-> keys, values |-> values]

\* a string | null result
NullText == [isNull |-> TRUE, text |-> <<>>]
Text(t) == [isNull |-> FALSE, text |-> t]

\* record[key], undefined when the object has no such key
property(node, key) ==
  IF \E i \in 1..Len(node.keys) : node.keys[i] = key
  THEN node.values[CHOOSE i \in 1..Len(node.keys) : node.keys[i] = key]
  ELSE JsUndefined

\* array[index] that gives the last element for an index past the end
elementAtClamped(items, index) ==
  IF items = <<>> \/ index < 0 THEN JsUndefined
  ELSE IF index + 1 > Len(items) THEN items[Len(items)] ELSE items[index + 1]

\* array[index], undefined outside the array
elementAt(items, index) ==
  IF index + 1 \in 1..Len(items) THEN items[index + 1] ELSE JsUndefined

\* the attribute keys the parser makes (attributeNamePrefix "@_")
AttributeKeys == {"@_id", "@_name"}

\* key.startsWith("@_")
isAttributeKey(key) == key \in AttributeKeys

\* coerceToString, lines 95-128
RECURSIVE coerceToString(_)
coerceToString(value) ==
  IF value.type \in {"null", "undefined"} THEN NullText
  ELSE IF value.type = "string" THEN Text(value.text)
  ELSE IF value.type = "number" THEN Text(value.text)
  ELSE IF value.type = "array"
  THEN LET coerced == [i \in 1..Len(value.items) |-> coerceToString(value.items[i])]
           hits == {i \in 1..Len(value.items) : ~coerced[i].isNull}
       IN  IF hits = {} THEN NullText
           ELSE coerced[CHOOSE i \in hits : \A j \in hits : i <= j]
  ELSE LET textNode == property(value, "#text") IN
       IF textNode.type = "string" THEN Text(textNode.text) ELSE NullText

\* unwrapSingleChild, lines 130-161: `moved` tells whether the value
\* returned is another value than the one passed in
RECURSIVE unwrapFrom(_, _)
unwrapFrom(current, moved) ==
  IF current.type # "object" THEN [node |-> current, moved |-> moved]
  ELSE LET entries == {i \in 1..Len(current.keys) : ~isAttributeKey(current.keys[i])} IN
       IF Cardinality(entries) # 1 THEN [node |-> current, moved |-> moved]
       ELSE LET next == current.values[CHOOSE i \in entries : TRUE] IN
            IF next.type # "object" THEN [node |-> next, moved |-> TRUE]
            ELSE unwrapFrom(next, TRUE)

unwrapSingleChild(value) == unwrapFrom(value, FALSE)

\* a path segment `key` or `key[index]`; NoIndex when there is no [index]
NoIndex == -1
Segment(key, index) == [key |-> key, index |-> index]

\* a path: its segments, or malformed when parsePathSegments throws on it
Path(segments) == [malformed |-> FALSE, segments |-> segments]
MalformedPath == [malformed |-> TRUE, segments |-> <<>>]

\* a path of plain keys
PathOf(keys) == Path([i \in 1..Len(keys) |-> Segment(keys[i], NoIndex)])

\* getValueAtPath, lines 172-211: the while loop from `index`
RECURSIVE walkPath(_, _, _)
walkPath(current, segments, index) ==
  IF index > Len(segments) THEN coerceToString(current)
  ELSE IF current.type # "object" THEN NullText
  ELSE LET segment == segments[index]
           next == property(current, segment.key)
       IN  IF next.type = "undefined"
           THEN LET unwrapped == unwrapSingleChild(current) IN
                IF unwrapped.moved THEN walkPath(unwrapped.node, segments, index)
                ELSE NullText
           ELSE IF next.type = "array"
           THEN IF segment.index = NoIndex THEN NullText
                ELSE walkPath(elementAt(next.items, segment.index), segments, index + 1)
           ELSE IF segment.index # NoIndex THEN NullText
           ELSE walkPath(next, segments, index + 1)

\* getValueAtPath, lines 163-212: [threw, value]
getValueAtPath(root, path) ==
  IF root.type \in {"null", "undefined"} THEN [threw |-> FALSE, value |-> NullText]
  ELSE IF path.malformed THEN [threw |-> TRUE, value |-> NullText]
  ELSE [threw |-> FALSE, value |-> walkPath(root, path.segments, 1)]

\* ================================================================ regexes
\* The patterns of field descriptors, by their source text; what
\* `new RegExp(pattern)` and RegExp.prototype.test do with each.
UpperChars == {"A", "B", "C", "D", "E", "F", "G", "H", "I", "J", "K", "L", "M",
               "N", "O", "P", "Q", "R", "S", "T", "U", "V", "W", "X", "Y", "Z"}
LowerChars == {"a", "b", "c", "d", "e", "f", "g", "h", "i", "j", "k", "l", "m",
               "n", "o", "p", "q", "r", "s", "t", "u", "v", "w", "x", "y", "z"}

IsUpperOrDigit(ch) == ch \in UpperChars \/ IsDigit(ch)

\* field.regex left out
NoPattern == ""
MrnPattern == "^[A-Z0-9]{18}$"
DeclarationTypePattern == "^[A-Z0-9]{1,4}$"
AnyTextPattern == ".+"
DecimalPattern == "^\\d+(?:\\.\\d+)?$"
CurrencyPattern == "^[A-Z]{3}$"
IsoDatePattern == "^\\d{4}-\\d{2}-\\d{2}$"
ReferencePattern == "^[A-Z0-9]+$"
IdentificationPattern == "^[A-Z0-9\\- ]+$"
DigitsPattern == "^\\d+$"
\* a pattern `new RegExp` throws on
UnterminatedClassPattern == "[A-Z"

\* new RegExp(pattern) does not throw
compiles(pattern) == pattern # UnterminatedClassPattern

AllDigits(s) == Len(s) >= 1 /\ \A i \in 1..Len(s) : IsDigit(s[i])

\* regex.test(s) for a pattern that compiles
test(pattern, s) ==
  CASE pattern = MrnPattern ->
         Len(s) = 18 /\ \A i \in 1..Len(s) : IsUpperOrDigit(s[i])
    [] pattern = DeclarationTypePattern ->
         Len(s) \in 1..4 /\ \A i \in 1..Len(s) : IsUpperOrDigit(s[i])
    [] pattern = AnyTextPattern ->
         \E i \in 1..Len(s) : s[i] # "\n"
    [] pattern = DecimalPattern ->
         \/ AllDigits(s)
         \/ \E k \in 2..(Len(s) - 1) :
              /\ s[k] = "."
              /\ AllDigits(SubSeq(s, 1, k - 1))
              /\ AllDigits(SubSeq(s, k + 1, Len(s)))
    [] pattern = CurrencyPattern ->
         Len(s) = 3 /\ \A i \in 1..Len(s) : s[i] \in UpperChars
    [] pattern = IsoDatePattern -> MatchesIsoDatePattern(s)
    [] pattern = ReferencePattern ->
         Len(s) >= 1 /\ \A i \in 1..Len(s) : IsUpperOrDigit(s[i])
    [] pattern = IdentificationPattern ->
         Len(s) >= 1 /\ \A i \in 1..Len(s) : IsUpperOrDigit(s[i]) \/ s[i] \in {"-", " "}
    [] pattern = DigitsPattern -> AllDigits(s)

\* The module-level caches of wysylkaXml.ts, lines 25-27, as one value:
\* regexMismatchCache holds <<pattern, path>> pairs.  (regexCache only
\* saves compiling a pattern again and changes no result.)
Caches(mismatches, invalid) ==
  [regexMismatchCache |-> mismatches, invalidRegexPatterns |-> invalid]

NoCaches == Caches({}, {})

\* console.warn calls, by what they report
Warning(kind, subject) == [kind |-> kind, subject |-> subject]

\* resolveRegex, lines 29-55: [usable, caches, warnings]
resolveRegex(pattern, caches) ==
  IF pattern = NoPattern
  THEN [usable |-> FALSE, caches |-> caches, warnings |-> <<>>]
  ELSE IF compiles(pattern)
  THEN [usable |-> TRUE, caches |-> caches, warnings |-> <<>>]
  ELSE IF pattern \in caches.invalidRegexPatterns
  THEN [usable |-> FALSE, caches |-> caches, warnings |-> <<>>]
  ELSE [usable |-> FALSE,
        caches |-> [caches EXCEPT !.invalidRegexPatterns = @ \cup {pattern}],
        warnings |-> <<Warning("invalid regex", pattern)>>]

\* ================================================================ sanitizeXml
\* characters of a source text that have no one-character spelling here
NulChar == "NUL"
BomChar == "BOM"

\* [\s\u0000-\u001F\uFEFF]
IsLeadingJunk(ch) == IsSpace(ch) \/ ch \in {NulChar, BomChar}

RECURSIVE dropLeadingJunk(_)
dropLeadingJunk(s) ==
  IF s # <<>> /\ IsLeadingJunk(Head(s)) THEN dropLeadingJunk(Tail(s)) ELSE s

\* value.replace(/\u0000+/g, "")
RECURSIVE dropNulChars(_)
dropNulChars(s) ==
  IF s = <<>> THEN <<>>
  ELSE IF Head(s) = NulChar THEN dropNulChars(Tail(s))
  ELSE <<Head(s)>> \o dropNulChars(Tail(s))

\* sanitizeXml, lines 57-68
sanitizeXml(value) ==
  IF value = <<>> THEN <<>>
  ELSE LET trimmed == dropLeadingJunk(value)
           xmlDeclarationIndex == indexOf(trimmed, <<"<", "?", "x", "m", "l">>)
           candidate == IF xmlDeclarationIndex >= 0
                        THEN sliceFrom(trimmed, xmlDeclarationIndex) ELSE trimmed
           firstTag == indexOf(candidate, <<"<">>)
           sliced == IF firstTag > 0 THEN sliceFrom(candidate, firstTag) ELSE candidate
       IN  dropNulChars(sliced)

\* ================================================================ document total
\* Array.prototype.flat of a sequence of sequences
RECURSIVE flatten(_)
flatten(seqs) ==
  IF seqs = <<>> THEN <<>> ELSE Head(seqs) \o flatten(Tail(seqs))

\* collectNodes, lines 214-252: traverse(current, index)
RECURSIVE traverse(_, _, _)
traverse(current, path, index) ==
  IF index > Len(path) THEN <<current>>
  ELSE IF current.type \in {"null", "undefined"} THEN <<>>
  ELSE IF current.type = "array"
  THEN flatten([i \in 1..Len(current.items) |-> traverse(current.items[i], path, index)])
  ELSE IF current.type # "object" THEN <<>>
  ELSE LET next == property(current, path[index]) IN
       IF next.type = "undefined" THEN <<>> ELSE traverse(next, path, index + 1)

collectNodes(root, path) == traverse(root, path, 1)

\* collectSupportingDocuments, lines 254-281: visit(node)
RECURSIVE visit(_)
visit(node) ==
  IF node.type = "array"
  THEN flatten([i \in 1..Len(node.items) |->
                  IF node.items[i].type \in {"object", "array"}
                  THEN visit(node.items[i]) ELSE <<>>])
  ELSE IF node.type = "object"
  THEN flatten([i \in 1..Len(node.keys) |->
                  LET value == node.values[i] IN
                  IF node.keys[i] = "SupportingDocument"
                  THEN IF value.type = "array" THEN value.items
                       ELSE IF value.type \in {"null", "undefined"} THEN <<>>
                       ELSE <<value>>
                  ELSE IF value.type \in {"object", "array"} THEN visit(value)
                  ELSE <<>>])
  ELSE <<>>

collectSupportingDocuments(root) == visit(root)

\* the first element of a sequence of string | null that is not null
firstText(results) ==
  LET hits == {i \in 1..Len(results) : ~results[i].isNull} IN
  IF hits = {} THEN NullText ELSE results[CHOOSE i \in hits : \A j \in hits : i <= j]

\* getFirstNonEmptyString, lines 560-602
RECURSIVE getFirstNonEmptyString(_)
getFirstNonEmptyString(value) ==
  IF value.type \in {"null", "undefined"} THEN NullText
  ELSE IF value.type = "string"
  THEN IF trim(value.text) # <<>> THEN Text(trim(value.text)) ELSE NullText
  ELSE IF value.type = "number" THEN Text(value.text)
  ELSE IF value.type = "array"
  THEN firstText([i \in 1..Len(value.items) |-> getFirstNonEmptyString(value.items[i])])
  ELSE LET textNode == property(value, "#text") IN
       IF textNode.type = "string" /\ trim(textNode.text) # <<>>
       THEN Text(trim(textNode.text))
       ELSE firstText([i \in 1..Len(value.values) |->
                         getFirstNonEmptyString(value.values[i])])

\* raw.replace(/\s+/g, " ")
RECURSIVE collapseSpaces(_)
collapseSpaces(s) ==
  IF s = <<>> THEN <<>>
  ELSE IF IsSpace(Head(s))
  THEN <<" ">> \o collapseSpaces(trimStart(Tail(s)))
  ELSE <<Head(s)>> \o collapseSpaces(Tail(s))

\* s.replace(/<ch>/g, "")
RECURSIVE removeAll(_, _)
removeAll(s, ch) ==
  IF s = <<>> THEN <<>>
  ELSE IF Head(s) = ch THEN removeAll(Tail(s), ch)
  ELSE <<Head(s)>> \o removeAll(Tail(s), ch)

\* s.replace(ch, by): the first occurrence only
replaceFirst(s, ch, by) ==
  LET at == indexOf(s, <<ch>>) IN
  IF at < 0 THEN s ELSE [i \in 1..Len(s) |-> IF i = at + 1 THEN by ELSE s[i]]

\* String.prototype.lastIndexOf of one character, 0-based
lastIndexOf(s, ch) ==
  LET hits == {i \in 1..Len(s) : s[i] = ch} IN
  IF hits = {} THEN -1 ELSE (CHOOSE i \in hits : \A j \in hits : i >= j) - 1

\* the length of the longest prefix of s whose characters are all in `allowed`
RECURSIVE runLength(_, _)
runLength(s, allowed) ==
  IF s # <<>> /\ Head(s) \in allowed THEN 1 + runLength(Tail(s), allowed) ELSE 0

DigitSet == {DigitChars[i] : i \in 1..10}

\* collapsed.match(/[-+]?\d[\d\s.,]*/): the matched text, <<>> when none
amountMatch(collapsed) ==
  LET starts == {i \in 1..Len(collapsed) :
                   \/ IsDigit(collapsed[i])
                   \/ /\ collapsed[i] \in {"-", "+"}
                      /\ i < Len(collapsed)
                      /\ IsDigit(collapsed[i + 1])}
  IN  IF starts = {} THEN <<>>
      ELSE LET from == CHOOSE i \in starts : \A j \in starts : i <= j
               first == IF IsDigit(collapsed[from]) THEN from ELSE from + 1
               rest == SubSeq(collapsed, first + 1, Len(collapsed))
               upTo == first + runLength(rest, DigitSet \cup {" ", "\t", "\n", ".", ","})
           IN  SubSeq(collapsed, from, upTo)

\* lines 300-310
normalizedAmount(amountCandidate) ==
  LET commaIndex == lastIndexOf(amountCandidate, ",")
      dotIndex == lastIndexOf(amountCandidate, ".")
  IN  IF commaIndex > dotIndex
      THEN replaceFirst(removeAll(amountCandidate, "."), ",", ".")
      ELSE IF dotIndex > commaIndex THEN removeAll(amountCandidate, ",")
      ELSE replaceFirst(amountCandidate, ",", ".")

\* Number.parseFloat of a text that starts [-+]?\d : the decimal it reads,
\* as sign, integer part and the digits after the point
parseFloat(s) ==
  LET negative == Head(s) = "-"
      unsigned == IF Head(s) \in {"-", "+"} THEN Tail(s) ELSE s
      whole == runLength(unsigned, DigitSet)
      after == SubSeq(unsigned, whole + 1, Len(unsigned))
      fraction == IF after # <<>> /\ Head(after) = "."
                  THEN SubSeq(after, 2, 1 + runLength(Tail(after), DigitSet))
                  ELSE <<>>
  IN  [negative |-> negative,
       whole |-> parseInt(SubSeq(unsigned, 1, whole)),
       fraction |-> fraction]

AlphabetUpper == <<"A", "B", "C", "D", "E", "F", "G", "H", "I", "J", "K", "L", "M",
                   "N", "O", "P", "Q", "R", "S", "T", "U", "V", "W", "X", "Y", "Z">>
AlphabetLower == <<"a", "b", "c", "d", "e", "f", "g", "h", "i", "j", "k", "l", "m",
                   "n", "o", "p", "q", "r", "s", "t", "u", "v", "w", "x", "y", "z">>

IsLetter(ch) == ch \in UpperChars \/ ch \in LowerChars

\* \w
IsWordChar(ch) == IsLetter(ch) \/ IsDigit(ch) \/ ch = "_"

\* String.prototype.toUpperCase
toUpperCase(s) ==
  [i \in 1..Len(s) |->
     IF s[i] \in LowerChars
     THEN AlphabetUpper[CHOOSE k \in 1..26 : AlphabetLower[k] = s[i]]
     ELSE s[i]]

\* collapsed.match(/\b([A-Z]{3})\b/i): group 1, <<>> when none
currencyMatch(collapsed) ==
  LET starts == {i \in 1..(Len(collapsed) - 2) :
                   /\ \A k \in i..(i + 2) : IsLetter(collapsed[k])
                   /\ i = 1 \/ ~IsWordChar(collapsed[i - 1])
                   /\ i + 3 > Len(collapsed) \/ ~IsWordChar(collapsed[i + 3])}
  IN  IF starts = {} THEN <<>>
      ELSE LET from == CHOOSE i \in starts : \A j \in starts : i <= j
           IN  SubSeq(collapsed, from, from + 2)

\* parseAmountAndCurrency, lines 286-321: [parsed, amount, currency];
\* currency <<>> stands for null
parseAmountAndCurrency(raw) ==
  LET collapsed == trim(collapseSpaces(raw))
      matched == amountMatch(collapsed)
  IN  IF collapsed = <<>> \/ matched = <<>>
      THEN [parsed |-> FALSE, amount |-> parseFloat(<<"0">>), currency |-> <<>>]
      ELSE [parsed |-> TRUE,
            amount |-> parseFloat(normalizedAmount(removeAll(matched, " "))),
            currency |-> toUpperCase(currencyMatch(collapsed))]

\* Math.round(amount * 100) of the decimal parseFloat read.  Math.round
\* takes a half towards +Infinity.
roundedCents(amount) ==
  LET digit(k) == IF k <= Len(amount.fraction) THEN DigitValue(amount.fraction[k]) ELSE 0
      hundredths == amount.whole * 100 + digit(1) * 10 + digit(2)
      half == digit(3) = 5 /\ \A k \in 4..Len(amount.fraction) : amount.fraction[k] = "0"
      above == digit(3) >= 5 /\ ~half
  IN  IF amount.negative
      THEN 0 - (hundredths + (IF above THEN 1 ELSE 0))
      ELSE hundredths + (IF above \/ half THEN 1 ELSE 0)

\* String(n) of a natural number
RECURSIVE decimalDigits(_)
decimalDigits(n) ==
  IF n < 10 THEN <<DigitChars[n + 1]>>
  ELSE decimalDigits(n \div 10) \o <<DigitChars[(n % 10) + 1]>>

\* value.toFixed(2) with the point left in place
formatNumberWithDot(cents) ==
  LET magnitude == IF cents < 0 THEN 0 - cents ELSE cents IN
  (IF cents < 0 THEN <<"-">> ELSE <<>>)
    \o decimalDigits(magnitude \div 100)
    \o <<".">>
    \o <<DigitChars[((magnitude \div 10) % 10) + 1], DigitChars[(magnitude % 10) + 1]>>

\* formatNumberWithComma, lines 283-284, of totalCents / 100
formatNumberWithComma(cents) ==
  LET magnitude == IF cents < 0 THEN 0 - cents ELSE cents IN
  (IF cents < 0 THEN <<"-">> ELSE <<>>)
    \o decimalDigits(magnitude \div 100)
    \o <<",">>
    \o <<DigitChars[((magnitude \div 10) % 10) + 1], DigitChars[(magnitude % 10) + 1]>>

\* Array.from(currencies).join("/")
RECURSIVE joinWithSlash(_)
joinWithSlash(currencies) ==
  IF currencies = <<>> THEN <<>>
  ELSE IF Len(currencies) = 1 THEN Head(currencies)
  ELSE Head(currencies) \o <<"/">> \o joinWithSlash(Tail(currencies))

\* lines 357-366: what of a document node is read as its complement
complementSource(node) ==
  IF node.type = "object" \/ node.type = "array"
  THEN LET record == IF node.type = "object" THEN node ELSE JsObject(<<>>, <<>>)
           camel == property(record, "complementOfInformation")
           pascal == property(record, "ComplementOfInformation")
           upper == property(record, "COMPLEMENTOFINFORMATION")
       IN  IF camel.type \notin {"null", "undefined"} THEN camel
           ELSE IF pascal.type \notin {"null", "undefined"} THEN pascal
           ELSE upper
  ELSE node

\* lines 352-388: the loop over documentNodes from the i-th node
RECURSIVE sumDocuments(_, _, _)
sumDocuments(documentNodes, i, acc) ==
  IF i > Len(documentNodes) THEN acc
  ELSE LET complement == getFirstNonEmptyString(complementSource(documentNodes[i]))
           counted(parsedValue) ==
             IF complement.isNull \/ ~parsedValue.parsed THEN acc
             ELSE [totalCents |-> acc.totalCents + roundedCents(parsedValue.amount),
                   found |-> TRUE,
                   currencies |->
                     IF parsedValue.currency = <<>>
                        \/ \E k \in 1..Len(acc.currencies) :
                             acc.currencies[k] = parsedValue.currency
                     THEN acc.currencies
                     ELSE Append(acc.currencies, parsedValue.currency)]
       IN  sumDocuments(documentNodes, i + 1,
                        counted(parseAmountAndCurrency(complement.text)))

\* lines 326-342
ConsignmentPaths ==
  << <<"IE029PL", "CC029C", "Consignment">>,
     <<"IE028PL", "CC028C", "Consignment">>,
     <<"IE045PL", "CC045C", "Consignment">> >>

\* aggregateHouseConsignmentSupportingDocumentsSum, lines 323-400
aggregateHouseConsignmentSupportingDocumentsSum(parsed) ==
  LET consignments ==
        flatten([p \in 1..Len(ConsignmentPaths) |-> collectNodes(parsed, ConsignmentPaths[p])])
      documentNodes ==
        flatten([n \in 1..Len(consignments) |-> collectSupportingDocuments(consignments[n])])
      formatted(sum) ==
        IF ~sum.found THEN NullText
        ELSE Text(trim(formatNumberWithComma(sum.totalCents)
                       \o (IF sum.currencies = <<>> THEN <<>>
                           ELSE <<" ">> \o joinWithSlash(sum.currencies))))
  IN  formatted(sumDocuments(documentNodes, 1,
                             [totalCents |-> 0, found |-> FALSE, currencies |-> <<>>]))

\* ================================================================ field resolution
\* a field descriptor (WysylkaXmlFieldConfig); NoPattern and NoAggregate
\* stand for a regex and an aggregate left out
NoAggregate == ""
Field(name, paths, regex, aggregate) ==
  [name |-> name, paths |-> paths, regex |-> regex, aggregate |-> aggregate]

\* lines 402-406
TRANSIT_OPERATION_RELEASE_DATE_PATHS ==
  << PathOf(<<"IE029PL", "CC029C", "TransitOperation", "releaseDate">>),
     PathOf(<<"IE028PL", "CC028C", "TransitOperation", "releaseDate">>),
     PathOf(<<"IE045PL", "CC045C", "TransitOperation", "releaseDate">>) >>

\* aggregateTransitOperationReleaseDateValue, lines 410-426
aggregateTransitOperationReleaseDateValue(parsed) ==
  LET trimmedAt(p) == trim(getValueAtPath(parsed, TRANSIT_OPERATION_RELEASE_DATE_PATHS[p]).value.text)
      hits == {p \in 1..Len(TRANSIT_OPERATION_RELEASE_DATE_PATHS) :
                 MatchesIsoDatePattern(trimmedAt(p))}
  IN  IF hits = {} THEN NullText
      ELSE Text(trimmedAt(CHOOSE p \in hits : \A q \in hits : p <= q))

\* runFieldAggregator, lines 428-440
runFieldAggregator(key, parsed) ==
  CASE key = "houseConsignmentSupportingDocumentsSum" ->
         aggregateHouseConsignmentSupportingDocumentsSum(parsed)
    [] key = "transitOperationReleaseDateValue" ->
         aggregateTransitOperationReleaseDateValue(parsed)
    [] OTHER -> NullText

\* what resolving one field gives: the value, the indexes of the candidate
\* paths that were evaluated, in order, the caches and the warnings
Resolution(resolved, evaluated, caches, warnings) ==
  [resolved |-> resolved, evaluated |-> evaluated, caches |-> caches,
   warnings |-> warnings]

\* a mismatch that is reported again whatever was reported before
regexMismatchCacheHasNothing(caches, cacheKey) == FALSE

\* regexMismatchCache.has(cacheKey), line 509
regexMismatchCacheHas(caches, cacheKey) == cacheKey \in caches.regexMismatchCache

\* extractFieldsFromXml, lines 492-529: the loop over field.paths from the
\* i-th path on
RECURSIVE tryPaths(_, _, _, _)
tryPaths(parsed, field, i, acc) ==
  IF i > Len(field.paths) THEN acc
  ELSE LET candidatePath == field.paths[i]
           rawCandidate == getValueAtPath(parsed, candidatePath)
           candidate == trim(rawCandidate.value.text)
           regex == resolveRegex(field.regex, acc.caches)
           cacheKey == <<field.regex, candidatePath>>
           seen == Resolution(acc.resolved, Append(acc.evaluated, i), acc.caches,
                              acc.warnings)
       IN  IF rawCandidate.threw
           THEN tryPaths(parsed, field, i + 1,
                         [seen EXCEPT !.warnings = Append(@, Warning("path", candidatePath))])
           ELSE IF rawCandidate.value.isNull \/ candidate = <<>>
           THEN tryPaths(parsed, field, i + 1, seen)
           ELSE IF regex.usable /\ ~test(field.regex, candidate)
           THEN tryPaths(parsed, field, i + 1,
                  IF regexMismatchCacheHas(acc.caches, cacheKey) THEN seen
                  ELSE [seen EXCEPT
                          !.caches.regexMismatchCache = @ \cup {cacheKey},
                          !.warnings = Append(@, Warning("mismatch", cacheKey))])
           ELSE Resolution(Text(candidate), seen.evaluated, regex.caches,
                           seen.warnings \o regex.warnings)

\* the candidate paths alone, the aggregate left unread
resolveFieldAggregateIgnored(parsed, field, caches) ==
  tryPaths(parsed, field, 1, Resolution(NullText, <<>>, caches, <<>>))

\* extractFieldsFromXml, lines 474-532: one turn of the loop over fields
resolveField(parsed, field, caches) ==
  LET resolvedFrom(aggregated) ==
        IF ~aggregated.isNull /\ trim(aggregated.text) # <<>>
        THEN Resolution(aggregated, <<>>, caches, <<>>)
        ELSE tryPaths(parsed, field, 1, Resolution(NullText, <<>>, caches, <<>>))
  IN  resolvedFrom(IF field.aggregate # NoAggregate
                   THEN runFieldAggregator(field.aggregate, parsed)
                   ELSE NullText)

\* ================================================================ extraction
\* what xmlParser.parse does with a sanitized text is the parser's business:
\* it returns a tree or throws
ParseThrows == [type |-> "throws"]

\* the names of a list of field descriptors
fieldNames(fields) == {fields[i].name : i \in 1..Len(fields)}

\* an empty object, whatever the fields
buildEmptyResultOmitted(fields) == [n \in {} |-> NullText]

\* buildEmptyResult, lines 442-444
buildEmptyResult(fields) == [n \in fieldNames(fields) |-> NullText]

\* what an extraction gives: the output map, the resolution of every field
\* in turn (none when no field was resolved), the caches and the warnings
Extracted(output, resolutions, caches, warnings) ==
  [op |-> "extracted", output |-> output, resolutions |-> resolutions,
   caches |-> caches, warnings |-> warnings]

\* extractFieldsFromXml, lines 473-533: the loop over fields from the i-th
RECURSIVE resolveFields(_, _, _, _)
resolveFields(parsed, fields, i, acc) ==
  IF i > Len(fields) THEN acc
  ELSE LET recorded(resolution) ==
             [resolutions |-> Append(acc.resolutions, resolution),
              caches |-> resolution.caches,
              warnings |-> acc.warnings \o resolution.warnings]
       IN  resolveFields(parsed, fields, i + 1,
                         recorded(resolveField(parsed, fields[i], acc.caches)))

\* extractFieldsFromXml, lines 446-536; `parse` is what xmlParser.parse
\* does with the sanitized text
extractFieldsFromXml(xml, parse, fields, sourceKey, caches) ==
  IF Len(fields) = 0 THEN Extracted(<<>>, <<>>, caches, <<>>)
  ELSE IF sanitizeXml(xml) = <<>>
  THEN Extracted(buildEmptyResult(fields), <<>>, caches, <<>>)
  ELSE IF parse = ParseThrows
  THEN Extracted(buildEmptyResult(fields), <<>>, caches,
                 <<Warning("parse", sourceKey)>>)
  ELSE LET last(n) == CHOOSE i \in 1..Len(fields) :
                        /\ fields[i].name = n
                        /\ \A j \in 1..Len(fields) : fields[j].name = n => j <= i
           output(done) ==
             Extracted([n \in fieldNames(fields) |-> done.resolutions[last(n)].resolved],
                       done.resolutions, done.caches, done.warnings)
       IN  output(resolveFields(parse, fields, 1,
                    [resolutions |-> <<>>, caches |-> caches, warnings |-> <<>>]))

\* a section of the configuration (WysylkaXmlSectionConfig)
Section(source, targetKey, fields) ==
  [source |-> source, targetKey |-> targetKey, fields |-> fields]

\* a cell of a row: its value and, when the value is a string, what the
\* parser does with its sanitized text
Cell(value, parse) == [value |-> value, parse |-> parse]

\* extractSection, lines 538-551
extractSection(row, section, caches) ==
  LET rawValue == row[section.source].value IN
  IF rawValue.type # "string"
  THEN Extracted(buildEmptyResult(section.fields), <<>>, caches, <<>>)
  ELSE extractFieldsFromXml(rawValue.text, row[section.source].parse, section.fields,
                            section.source, caches)

\* wysylkiXmlConfig.ts, lines 21-193
wysylkaXmlConfig ==
  << Section("odpowiedzXml", "odpowiedzXmlFields",
       << Field("mrn",
                << PathOf(<<"IE029PL", "CC029C", "TransitOperation", "MRN">>),
                   PathOf(<<"IE028PL", "CC028C", "TransitOperation", "MRN">>),
                   PathOf(<<"IE045PL", "CC045C", "TransitOperation", "MRN">>) >>,
                MrnPattern, NoAggregate),
          Field("declarationType",
                << PathOf(<<"IE029PL", "CC029C", "TransitOperation", "declarationType">>),
                   PathOf(<<"IE028PL", "CC028C", "TransitOperation", "declarationType">>) >>,
                DeclarationTypePattern, NoAggregate),
          Field("consigneeName",
                << PathOf(<<"IE029PL", "CC029C", "Consignment", "Consignee", "name">>),
                   PathOf(<<"IE045PL", "CC045C", "HolderOfTheTransitProcedure", "name">>) >>,
                AnyTextPattern, NoAggregate),
          Field("consignmentGrossMass",
                << PathOf(<<"IE029PL", "CC029C", "Consignment", "grossMass">>) >>,
                DecimalPattern, NoAggregate),
          Field("guaranteeAmount",
                << PathOf(<<"IE029PL", "CC029C", "Guarantee", "GuaranteeReference", "amountToBeCovered">>),
                   PathOf(<<"IE028PL", "CC028C", "Guarantee", "GuaranteeReference", "amountToBeCovered">>) >>,
                DecimalPattern, NoAggregate),
          Field("guaranteeCurrency",
                << PathOf(<<"IE029PL", "CC029C", "Guarantee", "GuaranteeReference", "currency">>),
                   PathOf(<<"IE028PL", "CC028C", "Guarantee", "GuaranteeReference", "currency">>) >>,
                CurrencyPattern, NoAggregate),
          Field("deliveryDate",
                << PathOf(<<"IE029PL", "CountrySpecificDataPL", "DeclarationSubmissionDate">>),
                   PathOf(<<"IE029PL", "CC029C", "CountrySpecificDataPL", "DeclarationSubmissionDate">>),
                   PathOf(<<"IE029PL", "CountrySpecificDataPL", "DeliveryDate">>),
                   PathOf(<<"IE029PL", "CC029C", "CountrySpecificDataPL", "DeliveryDate">>),
                   PathOf(<<"IE028PL", "CC028C", "CountrySpecificDataPL", "DeclarationSubmissionDate">>),
                   PathOf(<<"IE028PL", "CC028C", "CountrySpecificDataPL", "DeliveryDate">>) >>,
                IsoDatePattern, NoAggregate),
          Field("grn",
                << PathOf(<<"IE029PL", "CC029C", "Guarantee", "GuaranteeReference", "GRN">>),
                   PathOf(<<"IE028PL", "CC028C", "Guarantee", "GuaranteeReference", "GRN">>) >>,
                ReferencePattern, NoAggregate),
          Field("closeDate",
                << PathOf(<<"IE045PL", "CC045C", "TransitOperation", "writeOffDate">>),
                   PathOf(<<"IE029PL", "CC029C", "TransitOperation", "writeOffDate">>) >>,
                IsoDatePattern, NoAggregate),
          Field("releaseDate",
                << PathOf(<<"IE029PL", "CC029C", "ControlResult", "date">>),
                   PathOf(<<"IE028PL", "CC028C", "ControlResult", "date">>),
                   PathOf(<<"IE045PL", "CC045C", "ControlResult", "date">>),
                   PathOf(<<"IE029PL", "CC029C", "CountrySpecificDataPL", "ReleaseDate">>),
                   PathOf(<<"IE029PL", "CountrySpecificDataPL", "ReleaseDate">>),
                   PathOf(<<"IE028PL", "CC028C", "CountrySpecificDataPL", "ReleaseDate">>),
                   PathOf(<<"IE045PL", "CC045C", "CountrySpecificDataPL", "ReleaseDate">>),
                   PathOf(<<"IE029PL", "CC029C", "TransitOperation", "releaseDate">>) >>,
                IsoDatePattern, "transitOperationReleaseDateValue"),
          Field("controlResultDate",
                << PathOf(<<"IE029PL", "CC029C", "ControlResult", "date">>),
                   PathOf(<<"IE045PL", "CC045C", "ControlResult", "date">>) >>,
                IsoDatePattern, NoAggregate),
          Field("customsOfficeOfDepartureReferenceNumber",
                << PathOf(<<"IE029PL", "CC029C", "CustomsOfficeOfDeparture", "referenceNumber">>),
                   PathOf(<<"IE028PL", "CC028C", "CustomsOfficeOfDeparture", "referenceNumber">>) >>,
                ReferencePattern, NoAggregate),
          Field("customsOfficeOfDestinationDeclaredReferenceNumber",
                << PathOf(<<"IE029PL", "CC029C", "CustomsOfficeOfDestinationDeclared", "referenceNumber">>),
                   PathOf(<<"IE028PL", "CC028C", "CustomsOfficeOfDestinationDeclared", "referenceNumber">>) >>,
                ReferencePattern, NoAggregate),
          Field("guaranteeAmountToBeCovered",
                << PathOf(<<"IE029PL", "CC029C", "Guarantee", "GuaranteeReference", "amountToBeCovered">>),
                   PathOf(<<"IE028PL", "CC028C", "Guarantee", "GuaranteeReference", "amountToBeCovered">>) >>,
                DecimalPattern, NoAggregate),
          Field("activeBorderTransportMeansIdentificationNumber",
                << PathOf(<<"IE029PL", "CC029C", "ActiveBorderTransportMeans", "identificationNumber">>),
                   PathOf(<<"IE028PL", "CC028C", "ActiveBorderTransportMeans", "identificationNumber">>),
                   PathOf(<<"IE045PL", "CC045C", "ActiveBorderTransportMeans", "identificationNumber">>),
                   PathOf(<<"IE029PL", "CC029C", "Consignment", "ActiveBorderTransportMeans", "identificationNumber">>) >>,
                IdentificationPattern, NoAggregate),
          Field("houseConsignmentSupportingDocumentsSum", <<>>, NoPattern,
                "houseConsignmentSupportingDocumentsSum") >>),
     Section("dokumentXml", "dokumentXmlFields", <<>>) >>

\* parseXmlFieldsForWysylkaRow, lines 553-558: the sections in turn from
\* the i-th, the caches and warnings carried along
RECURSIVE extractSections(_, _, _, _)
extractSections(row, config, i, acc) ==
  IF i > Len(config) THEN acc
  ELSE LET entered(section) ==
             [entries |-> Append(acc.entries, <<config[i].targetKey, section.output>>),
              caches |-> section.caches,
              warnings |-> acc.warnings \o section.warnings]
       IN  extractSections(row, config, i + 1,
                           entered(extractSection(row, config[i], acc.caches)))

\* Object.fromEntries(entries): a later entry of a key replaces an earlier one
fromEntries(entries) ==
  LET last(k) == CHOOSE i \in 1..Len(entries) :
                   /\ entries[i][1] = k
                   /\ \A j \in 1..Len(entries) : entries[j][1] = k => j <= i
  IN  [k \in {entries[i][1] : i \in 1..Len(entries)} |-> entries[last(k)][2]]

\* parseXmlFieldsForWysylkaRow, lines 553-558
parseXmlFieldsForWysylkaRow(row, caches) ==
  LET parsedRow(done) ==
        [op |-> "row", sections |-> fromEntries(done.entries), caches |-> done.caches,
         warnings |-> done.warnings]
  IN  parsedRow(extractSections(row, wysylkaXmlConfig, 1,
                  [entries |-> <<>>, caches |-> caches, warnings |-> <<>>]))

\* ================================================================ extraction inputs
\* the longest list of candidate paths of a generated field descriptor
MaxPaths == 2

\* a transit message IE029PL/CC029C/TransitOperation with the given
\* children; a child that is undefined is left out
TransitMessage(mrn, lrn, releaseDate) ==
  LET given == << <<"MRN", mrn>>, <<"LRN", lrn>>, <<"releaseDate", releaseDate>> >>
      present == SelectSeq(given, LAMBDA e : e[2].type # "undefined")
  IN  JsObject(<<"IE029PL">>,
        << JsObject(<<"CC029C">>,
             << JsObject(<<"TransitOperation">>,
                  << JsObject([i \in 1..Len(present) |-> present[i][1]],
                              [i \in 1..Len(present) |-> present[i][2]]) >>) >>) >>)

LeafValues ==
  { JsUndefined, JsNull, JsString(<<>>), JsString(<<" ">>),
    JsString(<<"1", "2">>), JsString(<<" ", "1", "2", "\n">>), JsString(<<"x">>),
    JsNumber(<<"7">>) }

IsoDay == <<"2", "0", "2", "5", "-", "0", "1", "-", "0", "3">>

ReleaseDateValues ==
  { JsUndefined, JsString(<<>>), JsString(IsoDay), JsString(<<" ">> \o IsoDay \o <<" ">>),
    JsString(<<"s", "o", "o", "n">>) }

MrnPath == PathOf(<<"IE029PL", "CC029C", "TransitOperation", "MRN">>)
LrnPath == PathOf(<<"IE029PL", "CC029C", "TransitOperation", "LRN">>)
MissingPath == PathOf(<<"IE029PL", "CC029C", "TransitOperation", "writeOffDate">>)

CandidatePaths == {MrnPath, LrnPath, MissingPath, MalformedPath}

RECURSIVE PathListsUpTo(_)
PathListsUpTo(n) ==
  IF n = 0 THEN {<<>>}
  ELSE LET shorter == PathListsUpTo(n - 1) IN
       shorter \cup {Append(l, p) : l \in shorter, p \in CandidatePaths}

GeneratedFields ==
  { Field("value", paths, regex, aggregate) :
      paths \in PathListsUpTo(MaxPaths),
      regex \in {NoPattern, DigitsPattern, UnterminatedClassPattern},
      aggregate \in {NoAggregate, "transitOperationReleaseDateValue"} }

\* a source text the parser is given something of
SomeXml == <<"<", "d", "/", ">">>

\* calls of extractFieldsFromXml with one generated field; `given` keeps the
\* leaves the tree was built from
FieldRequests ==
  { [op |-> "extractFieldsFromXml", xml |-> SomeXml,
     parse |-> TransitMessage(mrn, lrn, releaseDate),
     fields |-> <<field>>, sourceKey |-> "odpowiedzXml", caches |-> NoCaches,
     given |-> [mrn |-> mrn, lrn |-> lrn, releaseDate |-> releaseDate]] :
      mrn \in LeafValues, lrn \in LeafValues, releaseDate \in ReleaseDateValues,
      field \in GeneratedFields }

\* the most supporting documents of a generated consignment
MaxDocuments == 2

\* a complement text with what a reader of it expects: whether it holds an
\* amount, the amount in cents, and the currency code (<<>> when none)
Complement(text, parseable, cents, currency) ==
  [text |-> text, parseable |-> parseable, cents |-> cents, currency |-> currency]

Complements ==
  { Complement(<<"1", "0", ",", "5", "0", " ", "E", "U", "R">>, TRUE, 1050, <<"E", "U", "R">>),
    Complement(<<"5", ".", "2", "5", " ", "E", "U", "R">>, TRUE, 525, <<"E", "U", "R">>),
    Complement(<<"1", ".", "2", "3", "4", ",", "5", "6", " ", "P", "L", "N">>, TRUE, 123456,
               <<"P", "L", "N">>),
    Complement(<<"U", "S", "D", " ", "3">>, TRUE, 300, <<"U", "S", "D">>),
    Complement(<<"-", "2", ",", "5", " ", "e", "u", "r">>, TRUE, -250, <<"E", "U", "R">>),
    Complement(<<"7">>, TRUE, 700, <<>>),
    Complement(<<"n", "/", "a">>, FALSE, 0, <<>>),
    Complement(<<>>, FALSE, 0, <<>>) }

RECURSIVE ComplementListsUpTo(_)
ComplementListsUpTo(n) ==
  IF n = 0 THEN {<<>>}
  ELSE LET shorter == ComplementListsUpTo(n - 1) IN
       shorter \cup {Append(l, c) : l \in shorter, c \in Complements}

\* the parser's value of an element text: a number when the text is one
ElementText(text) ==
  IF AllDigits(text) THEN JsNumber(text) ELSE JsString(text)

\* a SupportingDocument element with its complement under `key`
SupportingDocument(key, complement) ==
  JsObject(<<"type", key>>,
           <<JsString(<<"N", "3", "8", "0">>), ElementText(complement.text)>>)

\* the parser's value of the children named alike: one alone is no array
Children(nodes) ==
  IF Len(nodes) = 1 THEN nodes[1] ELSE JsArray(nodes)

ConsignmentShapes == {"house items", "consignment", "outside"}

\* an IE029PL message whose supporting documents hang, by shape, under the
\* consignment items of a house consignment, under the consignment itself, or
\* beside the consignment
ConsignmentMessage(shape, complements) ==
  LET key == IF shape = "consignment" THEN "ComplementOfInformation"
             ELSE "complementOfInformation"
      documents == [i \in 1..Len(complements) |-> SupportingDocument(key, complements[i])]
      holder == IF documents = <<>> THEN JsObject(<<"grossMass">>, <<JsNumber(<<"1">>)>>)
                ELSE JsObject(<<"grossMass", "SupportingDocument">>,
                              <<JsNumber(<<"1">>), Children(documents)>>)
      consignment ==
        IF shape = "house items"
        THEN JsObject(<<"HouseConsignment">>,
                      <<JsArray(<<JsObject(<<"ConsignmentItem">>, <<holder>>)>>)>>)
        ELSE IF shape = "consignment" THEN holder
        ELSE JsObject(<<"grossMass">>, <<JsNumber(<<"1">>)>>)
      body == IF shape = "outside"
              THEN JsObject(<<"Consignment", "Guarantee">>, <<consignment, holder>>)
              ELSE JsObject(<<"Consignment">>, <<consignment>>)
  IN  JsObject(<<"IE029PL">>, <<JsObject(<<"CC029C">>, <<body>>)>>)

SumField ==
  Field("houseConsignmentSupportingDocumentsSum", <<>>, NoPattern,
        "houseConsignmentSupportingDocumentsSum")

\* calls of extractFieldsFromXml for the document total; `documents` keeps
\* the complements the tree was built from
SumRequests ==
  { [op |-> "extractFieldsFromXml", xml |-> SomeXml,
     parse |-> ConsignmentMessage(shape, complements),
     fields |-> <<SumField>>, sourceKey |-> "odpowiedzXml", caches |-> NoCaches,
     shape |-> shape, documents |-> complements] :
      shape \in ConsignmentShapes, complements \in ComplementListsUpTo(MaxDocuments) }

\* the source texts of generated rows: empty, blank, control characters
\* only, a document, a document after a byte-order mark, a document after
\* other text
SourceTexts ==
  { <<>>, <<" ", "\n">>, <<NulChar>>, SomeXml, <<BomChar>> \o SomeXml,
    <<"j">> \o SomeXml }

SomeMrn ==
  <<"2", "5", "P", "L", "3", "2", "2", "0", "8", "0", "N", "S", "0", "0", "0", "0", "1", "7">>

\* what the parser made of the generated texts
ParsedMessages ==
  { TransitMessage(mrn, JsUndefined, releaseDate) :
      mrn \in {JsUndefined, JsString(SomeMrn), JsString(<<"x">>)},
      releaseDate \in {JsUndefined, JsString(IsoDay)} }
  \cup { ConsignmentMessage("house items", complements) :
           complements \in ComplementListsUpTo(1) }

OdpowiedzCells ==
  { Cell(value, ParseThrows) : value \in {JsUndefined, JsNull, JsNumber(<<"7">>)} }
  \cup { Cell(JsString(text), parse) :
           text \in SourceTexts, parse \in {ParseThrows} \cup ParsedMessages }

DokumentCells ==
  { Cell(value, ParseThrows) :
      value \in {JsUndefined, JsNull, JsString(<<>>), JsString(<<"p", "d", "f">>)} }
  \cup { Cell(JsString(SomeXml), TransitMessage(JsUndefined, JsUndefined, JsUndefined)) }

\* the caches as earlier calls of the process may have left them
SeenCaches ==
  { NoCaches, Caches({<<MrnPattern, wysylkaXmlConfig[1].fields[1].paths[1]>>}, {}) }

RowRequests ==
  { [op |-> "parseXmlFieldsForWysylkaRow",
     row |-> [odpowiedzXml |-> odpowiedz, dokumentXml |-> dokument],
     caches |-> caches] :
      odpowiedz \in OdpowiedzCells, dokument \in DokumentCells, caches \in SeenCaches }

ExtractRequests == FieldRequests \cup SumRequests \cup RowRequests

\* ---------------------------------------------------------------- ExtractSpec
\* One call of the extraction engine per behaviour, on any generated input.
ExtractInit ==
  /\ PoolInit
  /\ request \in ExtractRequests
  /\ reply = NoCall

ExtractFields ==
  /\ request.op = "extractFieldsFromXml"
  /\ reply = NoCall
  /\ reply' = extractFieldsFromXml(request.xml, request.parse, request.fields,
                                   request.sourceKey, request.caches)
  /\ UNCHANGED <<poolVars, att, cli, sd, pc, lease, err, work, rb, recycleArg, request>>

ParseRow ==
  /\ request.op = "parseXmlFieldsForWysylkaRow"
  /\ reply = NoCall
  /\ reply' = parseXmlFieldsForWysylkaRow(request.row, request.caches)
  /\ UNCHANGED <<poolVars, att, cli, sd, pc, lease, err, work, rb, recycleArg, request>>

ExtractNext ==
  \/ ExtractFields
  \/ ParseRow

ExtractSpec == ExtractInit /\ [][ExtractNext]_vars

\* ---------------------------------------------------------------- C16
\* a call resolved one generated field against a transit message
FieldResolved ==
  /\ request.op = "extractFieldsFromXml"
  /\ "given" \in DOMAIN request
  /\ reply # NoCall

\* the leaf of the message a candidate path names, undefined when it names none
LeafAt(path) ==
  IF path = MrnPath THEN request.given.mrn
  ELSE IF path = LrnPath THEN request.given.lrn
  ELSE JsUndefined

\* the leaf's text, trimmed; <<>> when the leaf has no text
TrimmedLeaf(leaf) ==
  IF leaf.type \in {"string", "number"} THEN trim(leaf.text) ELSE <<>>

\* the value at the path is a candidate that succeeds for the field
Succeeds(field, path) ==
  /\ TrimmedLeaf(LeafAt(path)) # <<>>
  /\ field.regex # NoPattern => test(field.regex, TrimmedLeaf(LeafAt(path)))

\* the release date of the message is what the aggregator of the field yields
AggregatorYields(field) ==
  /\ field.aggregate = "transitOperationReleaseDateValue"
  /\ MatchesIsoDatePattern(TrimmedLeaf(request.given.releaseDate))

AggregatorWon ==
  /\ FieldResolved
  /\ request.fields[1].aggregate = "transitOperationReleaseDateValue"
  /\ request.fields[1].paths = <<MrnPath>>
  /\ request.fields[1].regex = DigitsPattern
  /\ request.given.mrn = JsString(<<"1", "2">>)
  /\ reply.output["value"] = Text(IsoDay)
  /\ reply.resolutions[1].evaluated = <<>>

\* ---------------------------------------------------------------- C17
RowParsed == request.op = "parseXmlFieldsForWysylkaRow" /\ reply # NoCall

\* the field names configured for odpowiedzXml (wysylkiXmlConfig.ts)
OdpowiedzFieldNames ==
  { "mrn", "declarationType", "consigneeName", "consignmentGrossMass",
    "guaranteeAmount", "guaranteeCurrency", "deliveryDate", "grn", "closeDate",
    "releaseDate", "controlResultDate", "customsOfficeOfDepartureReferenceNumber",
    "customsOfficeOfDestinationDeclaredReferenceNumber", "guaranteeAmountToBeCovered",
    "activeBorderTransportMeansIdentificationNumber",
    "houseConsignmentSupportingDocumentsSum" }

\* the text holds something besides white space and control characters
HasContent(text) == \E i \in 1..Len(text) : ~IsLeadingJunk(text[i])

\* the cell is a text with content that the parser throws on
FailsToParse(cell) ==
  /\ cell.value.type = "string"
  /\ HasContent(cell.value.text)
  /\ cell.parse = ParseThrows

\* the cell is absent, not a string, empty, or a text that fails to parse
NoDocument(cell) ==
  \/ cell.value.type # "string"
  \/ ~HasContent(cell.value.text)
  \/ FailsToParse(cell)

ParseWarnings ==
  {i \in 1..Len(reply.warnings) : reply.warnings[i].kind = "parse"}

\* C17: for every row the engine returns one map per configured source, under
\* the source's target key and holding every field name configured for the
\* source; when the source text is absent, empty, not a string or fails to
\* parse, every field of the section is null, and a parse failure is logged
\* once, not per field.
C17_OneMapPerSource ==
  RowParsed =>
    /\ DOMAIN reply.sections = {"odpowiedzXmlFields", "dokumentXmlFields"}
    /\ DOMAIN reply.sections["odpowiedzXmlFields"] = OdpowiedzFieldNames
    /\ DOMAIN reply.sections["dokumentXmlFields"] = {}
    /\ NoDocument(request.row.odpowiedzXml) =>
         \A n \in OdpowiedzFieldNames : reply.sections["odpowiedzXmlFields"][n] = NullText
    /\ Cardinality(ParseWarnings) =
         IF FailsToParse(request.row.odpowiedzXml) THEN 1 ELSE 0

\* C17 witness: the odpowiedzXml text failed to parse; both maps are there,
\* every odpowiedzXml field is null and one warning was logged
C17_Witness ==
  /\ RowParsed
  /\ FailsToParse(request.row.odpowiedzXml)
  /\ DOMAIN reply.sections = {"odpowiedzXmlFields", "dokumentXmlFields"}
  /\ \A n \in OdpowiedzFieldNames : reply.sections["odpowiedzXmlFields"][n] = NullText
  /\ reply.warnings = <<Warning("parse", "odpowiedzXml")>>

\* a row without either source still gave both maps
AbsentSourcesMapped ==
  /\ RowParsed
  /\ request.row.odpowiedzXml.value = JsUndefined
  /\ request.row.dokumentXml.value = JsUndefined
  /\ DOMAIN reply.sections["odpowiedzXmlFields"] = OdpowiedzFieldNames

\* a row whose document parsed has a field that is not null
SomeFieldResolved ==
  /\ RowParsed
  /\ reply.sections["odpowiedzXmlFields"]["mrn"] = Text(SomeMrn)
  /\ reply.sections["odpowiedzXmlFields"]["releaseDate"] = Text(IsoDay)

\* ---------------------------------------------------------------- C18
\* a call ran the document-total aggregator on a generated consignment
TotalComputed ==
  /\ request.op = "extractFieldsFromXml"
  /\ "documents" \in DOMAIN request
  /\ reply # NoCall

\* the complements of the supporting documents under the consignment that
\* hold an amount
Amounts ==
  IF request.shape = "outside" THEN <<>>
  ELSE SelectSeq(request.documents, LAMBDA c : c.parseable)

RECURSIVE CentsOf(_)
CentsOf(complements) ==
  IF complements = <<>> THEN 0 ELSE Head(complements).cents + CentsOf(Tail(complements))

\* the currency codes of the complements, each once, in order of appearance
RECURSIVE CodesOf(_, _)
CodesOf(complements, seen) ==
  IF complements = <<>> THEN <<>>
  ELSE LET code == Head(complements).currency IN
       IF code = <<>> \/ code \in seen THEN CodesOf(Tail(complements), seen)
       ELSE <<code>> \o CodesOf(Tail(complements), seen \cup {code})

\* an amount of cents written with a comma and two decimals
RECURSIVE Numeral(_)
Numeral(n) ==
  IF n < 10 THEN <<DigitChars[n + 1]>> ELSE Append(Numeral(n \div 10), DigitChars[(n % 10) + 1])

WithCommaAndTwoDecimals(cents) ==
  IF cents < 0 THEN <<"-">> \o Numeral((0 - cents) \div 100) \o <<",">>
                    \o Numeral(((0 - cents) % 100) \div 10) \o Numeral((0 - cents) % 10)
  ELSE Numeral(cents \div 100) \o <<",">> \o Numeral((cents % 100) \div 10)
       \o Numeral(cents % 10)

RECURSIVE CodesJoined(_)
CodesJoined(codes) ==
  IF Len(codes) = 1 THEN codes[1]
  ELSE codes[1] \o <<"/">> \o CodesJoined(Tail(codes))

\* C18: the document-total aggregator returns the sum, in integer cents, of
\* the complement amounts of the supporting documents under the consignment,
\* written with a comma and two decimals and followed by the currency codes
\* seen joined by "/", and null when no such document holds an amount;
\* "10,50 EUR" and "5.25 EUR" give "15,75 EUR".
C18_DocumentTotal ==
  TotalComputed =>
    LET totalText == reply.output["houseConsignmentSupportingDocumentsSum"]
        codes == CodesOf(Amounts, {})
    IN  /\ Amounts = <<>> => totalText = NullText
        /\ Amounts # <<>> =>
             totalText = Text(WithCommaAndTwoDecimals(CentsOf(Amounts))
                          \o (IF codes = <<>> THEN <<>> ELSE <<" ">> \o CodesJoined(codes)))
        /\ ( /\ request.shape # "outside"
             /\ Len(request.documents) = 2
             /\ request.documents[1].text = <<"1", "0", ",", "5", "0", " ", "E", "U", "R">>
             /\ request.documents[2].text = <<"5", ".", "2", "5", " ", "E", "U", "R">> )
           => totalText = Text(<<"1", "5", ",", "7", "5", " ", "E", "U", "R">>)

\* C18 witness: complements "10,50 EUR" and "5.25 EUR" under the consignment
\* items of a house consignment gave "15,75 EUR"
C18_Witness ==
  /\ TotalComputed
  /\ request.shape = "house items"
  /\ Len(request.documents) = 2
  /\ request.documents[1].text = <<"1", "0", ",", "5", "0", " ", "E", "U", "R">>
  /\ request.documents[2].text = <<"5", ".", "2", "5", " ", "E", "U", "R">>
  /\ reply.output["houseConsignmentSupportingDocumentsSum"]
       = Text(<<"1", "5", ",", "7", "5", " ", "E", "U", "R">>)

\* documents were there, none with an amount, and the total is null
NoAmountNoTotal ==
  /\ TotalComputed
  /\ request.shape = "consignment"
  /\ Len(request.documents) = 2
  /\ Amounts = <<>>
  /\ reply.output["houseConsignmentSupportingDocumentsSum"] = NullText

\* two currencies were seen and both follow the total
TwoCurrenciesJoined ==
  /\ TotalComputed
  /\ reply.output["houseConsignmentSupportingDocumentsSum"]
       = Text(<<"1", "2", "3", "2", ",", "0", "6", " ", "P", "L", "N", "/", "E", "U", "R">>)

\* ================================================================ rejestrRepository.ts
\* `if (text)` on a string | null
truthy(t) == ~t.isNull /\ t.text # <<>>

\* coerceToString of rejestrRepository.ts, lines 124-136, on a column value
columnToString(value) ==
  IF value.type = "string"
  THEN IF trim(value.text) # <<>> THEN Text(trim(value.text)) ELSE NullText
  ELSE IF value.type = "number" THEN Text(value.text)
  ELSE NullText

\* a number | null
NoId == [isNull |-> TRUE, id |-> 0]
Id(n) == [isNull |-> FALSE, id |-> n]

\* normalizeSadueId, lines 90-111, on a column holding a natural number, a
\* text or nothing
normalizeSadueId(value) ==
  IF value.type = "number" THEN Id(parseInt(value.text))
  ELSE IF value.type = "string"
  THEN LET trimmed == trim(value.text)
           digits == runLength(trimmed, DigitSet)
       IN  IF digits = 0 THEN NoId ELSE Id(parseInt(SubSeq(trimmed, 1, digits)))
  ELSE NoId

\* extractMrnYearPrefix, lines 158-161: /^(\d{2})[A-Z]{2}/i on the trimmed text
extractMrnYearPrefix(mrn) ==
  LET trimmed == trim(mrn) IN
  IF /\ Len(trimmed) >= 4
     /\ IsDigit(trimmed[1]) /\ IsDigit(trimmed[2])
     /\ IsLetter(trimmed[3]) /\ IsLetter(trimmed[4])
  THEN Text(SubSeq(trimmed, 1, 2))
  ELSE NullText

\* no text passes the year check
matchesExpectedMrnYearNever(mrn, expectedYearSuffix) == FALSE

\* matchesExpectedMrnYear, lines 163-164
matchesExpectedMrnYear(mrn, expectedYearSuffix) ==
  extractMrnYearPrefix(mrn) = Text(expectedYearSuffix)

\* Array.prototype.find on a list of string | null; null when none is found
findText(candidates, wanted(_)) ==
  LET hits == {i \in 1..Len(candidates) : wanted(candidates[i])} IN
  IF hits = {} THEN NullText
  ELSE candidates[CHOOSE i \in hits : \A j \in hits : i <= j]

\* the directly-joined value first, whatever the preference
selectPreferredMrnSourceFirst(preferWysylkiMrn, expectedYearSuffix, sourceMrn, resolvedMrn) ==
  LET candidates == <<sourceMrn, resolvedMrn>>
      matching == findText(candidates,
                    LAMBDA c : truthy(c) /\ matchesExpectedMrnYear(c.text, expectedYearSuffix))
  IN  IF truthy(matching) THEN matching ELSE findText(candidates, truthy)

\* selectPreferredMrn, lines 166-187
selectPreferredMrn(preferWysylkiMrn, expectedYearSuffix, sourceMrn, resolvedMrn) ==
  LET candidates == IF preferWysylkiMrn THEN <<resolvedMrn, sourceMrn>>
                    ELSE <<sourceMrn, resolvedMrn>>
      matching == findText(candidates,
                    LAMBDA c : truthy(c) /\ matchesExpectedMrnYear(c.text, expectedYearSuffix))
  IN  IF truthy(matching) THEN matching ELSE findText(candidates, truthy)

\* WysylkaResolution, lines 197-200
WysylkaResolution(mrn, xmlDoc) == [mrn |-> mrn, xmlDoc |-> xmlDoc]

\* decodeXmlForRow, lines 252-282.  row.mapped is the row as
\* mapWysylkaRowWithAllColumns returns it, the response payload decoded.
\* The regex caches of wysylkaXml.ts change no value and are left at NoCaches.
decodeXmlForRow(row) ==
  LET mappedRow == row.mapped
      mrnFromXml(xmlFields) ==
        LET odpFields == xmlFields["odpowiedzXmlFields"] IN
        IF ~odpFields["mrn"].isNull /\ trim(odpFields["mrn"].text) # <<>>
        THEN Text(trim(odpFields["mrn"].text)) ELSE NullText
      mappedXml == columnToString(mappedRow.odpowiedzXml.value)
  IN  [mrn |-> mrnFromXml(parseXmlFieldsForWysylkaRow(mappedRow, NoCaches).sections),
       xmlDoc |-> IF truthy(mappedXml) THEN mappedXml ELSE NullText]

\* resolveMrnViaWysylka, lines 284-325: the loop over wysylkaRows from the
\* i-th row, and the return after it
RECURSIVE scanWysylkaRows(_, _, _, _)
scanWysylkaRows(wysylkaRows, expectedYearSuffix, i, fallback) ==
  IF i > Len(wysylkaRows) THEN fallback
  ELSE LET wysylkaRow == wysylkaRows[i]
           nrMrnDok == columnToString(wysylkaRow.NRMRNDOK)
           scanned(decoded) ==
             LET fallbackMrn == IF truthy(fallback.mrn) THEN fallback.mrn
                                ELSE IF truthy(nrMrnDok) THEN nrMrnDok
                                ELSE IF truthy(decoded.mrn) THEN decoded.mrn
                                ELSE fallback.mrn
                 fallbackXml == IF truthy(decoded.xmlDoc) /\ ~truthy(fallback.xmlDoc)
                                THEN decoded.xmlDoc ELSE fallback.xmlDoc
             IN  IF truthy(nrMrnDok)
                    /\ matchesExpectedMrnYear(nrMrnDok.text, expectedYearSuffix)
                 THEN WysylkaResolution(nrMrnDok, decoded.xmlDoc)
                 ELSE IF truthy(decoded.mrn)
                         /\ matchesExpectedMrnYear(decoded.mrn.text, expectedYearSuffix)
                 THEN WysylkaResolution(decoded.mrn, decoded.xmlDoc)
                 ELSE scanWysylkaRows(wysylkaRows, expectedYearSuffix, i + 1,
                                      WysylkaResolution(fallbackMrn, fallbackXml))
       IN  scanned(decodeXmlForRow(wysylkaRow))

\* a query parameter: number | string
NumberParameter(n) == [type |-> "number", text |-> decimalDigits(n)]
StringParameter(text) == [type |-> "string", text |-> text]

\* what a fetch has memoized and asked so far: wysylkaMrnCache as a set of
\* entries, and the parameters of the queries executed, in order
Memo(cache, queries) == [cache |-> cache, queries |-> queries]

NoMemo == Memo({}, <<>>)

\* executeRowsQuery(..., WYSYLKICELINA_RECENT_BY_DOCUMENT_SQL, [parameter]),
\* lines 243-248, against the table contents `wysylki`
executeRowsQuery(wysylki, parameter) ==
  IF \E e \in wysylki : e.parameter = parameter
  THEN (CHOOSE e \in wysylki : e.parameter = parameter).rows
  ELSE <<>>

\* resolveMrnViaWysylka, lines 235-326: [resolution, memo]
resolveMrnViaWysylka(cacheKey, parameter, wysylki, expectedYearSuffix, memo) ==
  IF \E e \in memo.cache : e.key = cacheKey
  THEN [resolution |-> (CHOOSE e \in memo.cache : e.key = cacheKey).resolution,
        memo |-> memo]
  ELSE LET memoized(resolution) ==
             [resolution |-> resolution,
              memo |-> Memo(memo.cache \cup {[key |-> cacheKey, resolution |-> resolution]},
                            Append(memo.queries, parameter))]
       IN  memoized(scanWysylkaRows(executeRowsQuery(wysylki, parameter),
                                    expectedYearSuffix, 1,
                                    WysylkaResolution(NullText, NullText)))

\* resolveMrnForRow, lines 334-357: the lookups to try, in order
lookupCandidates(sadueId, sadueSupplementId, pozRejValue) ==
  (IF ~sadueSupplementId.isNull
   THEN <<[cacheKey |-> <<"s", "a", "d", "-", "s", "u", "p", "p", ":">>
                          \o decimalDigits(sadueSupplementId.id),
           parameter |-> NumberParameter(sadueSupplementId.id)]>>
   ELSE <<>>)
  \o (IF ~sadueId.isNull
      THEN <<[cacheKey |-> <<"s", "a", "d", ":">> \o decimalDigits(sadueId.id),
              parameter |-> NumberParameter(sadueId.id)]>>
      ELSE <<>>)
  \o (IF sadueId.isNull /\ sadueSupplementId.isNull /\ truthy(pozRejValue)
      THEN (IF AllDigits(pozRejValue.text)
            THEN <<[cacheKey |-> <<"n", "u", "m", ":">>
                                   \o decimalDigits(parseInt(pozRejValue.text)),
                    parameter |-> NumberParameter(parseInt(pozRejValue.text))]>>
            ELSE <<>>)
           \o <<[cacheKey |-> <<"r", "a", "w", ":">> \o pozRejValue.text,
                 parameter |-> StringParameter(pozRejValue.text)]>>
      ELSE <<>>)

\* resolveMrnForRow, lines 359-374: the loop over candidates from the i-th
RECURSIVE tryLookups(_, _, _, _, _, _)
tryLookups(candidates, wysylki, expectedYearSuffix, i, fallback, memo) ==
  IF i > Len(candidates)
  THEN [resolution |-> fallback, memo |-> memo]
  ELSE LET tried(looked) ==
             LET resolution == looked.resolution IN
             IF truthy(resolution.mrn)
                /\ matchesExpectedMrnYear(resolution.mrn.text, expectedYearSuffix)
             THEN [resolution |-> resolution, memo |-> looked.memo]
             ELSE tryLookups(candidates, wysylki, expectedYearSuffix, i + 1,
                    WysylkaResolution(
                      IF ~truthy(fallback.mrn) /\ truthy(resolution.mrn)
                      THEN resolution.mrn ELSE fallback.mrn,
                      IF ~truthy(fallback.xmlDoc) /\ truthy(resolution.xmlDoc)
                      THEN resolution.xmlDoc ELSE fallback.xmlDoc),
                    looked.memo)
       IN  tried(resolveMrnViaWysylka(candidates[i].cacheKey, candidates[i].parameter,
                                      wysylki, expectedYearSuffix, memo))

\* resolveMrnForRow, lines 328-375: [resolution, memo]
resolveMrnForRow(sadueId, sadueSupplementId, pozRejValue, wysylki, expectedYearSuffix, memo) ==
  tryLookups(lookupCandidates(sadueId, sadueSupplementId, pozRejValue), wysylki,
             expectedYearSuffix, 1, WysylkaResolution(NullText, NullText), memo)

\* String.prototype.toLowerCase
toLowerCase(s) ==
  [i \in 1..Len(s) |->
     IF s[i] \in UpperChars
     THEN AlphabetLower[CHOOSE k \in 1..26 : AlphabetUpper[k] = s[i]]
     ELSE s[i]]

\* parseBooleanEnv, lines 138-156, of an environment variable that is a
\* text or, when NotAString, not set
parseBooleanEnv(value, fallback) ==
  IF value = NotAString THEN fallback
  ELSE LET normalized == toLowerCase(trim(value)) IN
       IF normalized = <<>> THEN fallback
       ELSE IF normalized \in {<<"1">>, <<"t", "r", "u", "e">>, <<"y", "e", "s">>, <<"y">>,
                               <<"o", "n">>}
       THEN TRUE
       ELSE IF normalized \in {<<"0">>, <<"f", "a", "l", "s", "e">>, <<"n", "o">>, <<"n">>,
                               <<"o", "f", "f">>}
       THEN FALSE
       ELSE fallback

\* line 450
RegisteredPlaceholder ==
  <<"z", "g", "l", "o", "s", "z", "e", "n", "i", "e", " ",
    "z", "a", "r", "e", "j", "e", "s", "t", "r", "o", "w", "a", "n", "e", " ",
    "(", "Z", "C", "4", "2", "8", ")">>

\* fetchRejestrEntriesByDeclarationDate, lines 381-465: one turn of the loop
\* over rows.  zgloszenieKod is what extractZgloszenieKodFromXml reads from a
\* payload.  Gives the entry (with the values it was chosen from), the
\* warnings logged and the memo.
summarizeRow(row, normalizedDate, preferWysylkiMrn, wysylki, zgloszenieKod, memo) ==
  LET expectedYearSuffix == SubSeq(normalizedDate, 3, 4)
      pozRej == columnToString(row.NRKONWPISU)
      sadueId == normalizeSadueId(row.IDSADU)
      sadueSupplementId == normalizeSadueId(row.IDSADUUZUP)
      sourceMrn == columnToString(row.MRN)
      sourceHasExpectedYear ==
        truthy(sourceMrn) /\ matchesExpectedMrnYear(sourceMrn.text, expectedYearSuffix)
      summarized(resolved) ==
        LET resolvedMrn == resolved.resolution.mrn
            resolvedHasExpectedYear ==
              truthy(resolvedMrn) /\ matchesExpectedMrnYear(resolvedMrn.text, expectedYearSuffix)
            forceWysylkiForSupplement == ~sadueSupplementId.isNull
            mrn == selectPreferredMrn(preferWysylkiMrn \/ forceWysylkiForSupplement,
                                      expectedYearSuffix, sourceMrn, resolvedMrn)
            xmlDoc == IF truthy(resolved.resolution.xmlDoc) THEN resolved.resolution.xmlDoc
                      ELSE NullText
            kod == IF truthy(xmlDoc) THEN zgloszenieKod ELSE NullText
            responseMrn == IF kod = Text(<<"Z", "C", "4", "2", "8">>)
                           THEN Text(RegisteredPlaceholder) ELSE mrn
        IN  [entry |-> [mrn |-> responseMrn, zgloszenieKod |-> kod, xmlDoc |-> xmlDoc,
                        pozRej |-> pozRej, sadueId |-> sadueId,
                        sadueSupplementId |-> sadueSupplementId,
                        selected |-> mrn, sourceMrn |-> sourceMrn, resolvedMrn |-> resolvedMrn],
             warnings |->
               (IF truthy(sourceMrn) /\ ~sourceHasExpectedYear
                THEN <<Warning("year mismatch", "REJWPISY")>> ELSE <<>>)
               \o (IF truthy(resolvedMrn) /\ ~resolvedHasExpectedYear
                   THEN <<Warning("year mismatch", "WYSYLKICELINA")>> ELSE <<>>)
               \o (IF truthy(sourceMrn) /\ truthy(resolvedMrn) /\ sourceMrn # resolvedMrn
                   THEN <<Warning("differs", "WYSYLKICELINA")>> ELSE <<>>)
               \o (IF truthy(mrn) /\ ~matchesExpectedMrnYear(mrn.text, expectedYearSuffix)
                   THEN <<Warning("year mismatch", "selected")>> ELSE <<>>),
             memo |-> resolved.memo]
  IN  summarized(resolveMrnForRow(sadueId, sadueSupplementId, pozRej, wysylki,
                                  expectedYearSuffix, memo))

\* fetchRejestrEntriesByDeclarationDate, lines 377-467: the loop over rows
\* from the i-th
RECURSIVE summarizeRows(_, _, _, _, _, _, _)
summarizeRows(rows, normalizedDate, preferWysylkiMrn, wysylki, zgloszenieKod, i, acc) ==
  IF i > Len(rows) THEN acc
  ELSE LET pushed(summary) ==
             [entries |-> Append(acc.entries, summary.entry),
              warnings |-> acc.warnings \o summary.warnings,
              memo |-> summary.memo]
       IN  summarizeRows(rows, normalizedDate, preferWysylkiMrn, wysylki, zgloszenieKod,
                         i + 1,
                         pushed(summarizeRow(rows[i], normalizedDate, preferWysylkiMrn,
                                             wysylki, zgloszenieKod, acc.memo)))

\* fetchRejestrEntriesByDeclarationDate, lines 211-215 and 233-472: the
\* entries for the rows the date query returned, the table contents being
\* `wysylki` and the environment variable `env`
rejestrEntries(normalizedDate, env, rows, wysylki, zgloszenieKod) ==
  LET returned(done) ==
        [op |-> "entries", entries |-> done.entries, warnings |-> done.warnings,
         memo |-> done.memo]
  IN  returned(summarizeRows(rows, normalizedDate, parseBooleanEnv(env, TRUE), wysylki,
                             zgloszenieKod, 1,
                             [entries |-> <<>>, warnings |-> <<>>, memo |-> NoMemo]))

\* ================================================================ resolver inputs
\* the most transmission records a generated lookup returns
MaxWysylkaRows == 2

\* an 18-character MRN text that starts with `prefix` (four characters) and
\* ends with `mark`
MrnText(prefix, mark) ==
  prefix \o <<"3", "2", "2", "0", "8", "0", "N", "S", "0", "0", "0", "0", "1">> \o <<mark>>

\* the starts of generated MRN texts: year 25 and a country code, year 24
\* and a country code, 25 and no country code
MrnPrefixes == { <<"2", "5", "P", "L">>, <<"2", "4", "P", "L">>, <<"2", "5", "1", "2">> }

QueryDates ==
  { <<"2", "0", "2", "5", "-", "0", "1", "-", "0", "3">>,
    <<"2", "0", "2", "4", "-", "1", "2", "-", "3", "1">> }

\* a mapped transmission row without a response payload, and one whose
\* payload holds the MRN
NoPayload ==
  [odpowiedzXml |-> Cell(JsNull, ParseThrows), dokumentXml |-> Cell(JsUndefined, ParseThrows)]
PayloadWithMrn(mrn) ==
  [odpowiedzXml |-> Cell(JsString(SomeXml), TransitMessage(JsString(mrn), JsUndefined, JsUndefined)),
   dokumentXml |-> Cell(JsUndefined, ParseThrows)]

\* a row of WYSYLKICELINA with what mapWysylkaRowWithAllColumns makes of it
WysylkaRow(nrMrnDok, mapped) == [NRMRNDOK |-> nrMrnDok, mapped |-> mapped]

WysylkaRows ==
  { WysylkaRow(column, mapped) :
      column \in {JsNull} \cup {JsString(MrnText(p, "A")) : p \in MrnPrefixes},
      mapped \in {NoPayload} \cup {PayloadWithMrn(MrnText(p, "B")) : p \in MrnPrefixes} }

RECURSIVE WysylkaRowListsUpTo(_)
WysylkaRowListsUpTo(n) ==
  IF n = 0 THEN {<<>>}
  ELSE LET shorter == WysylkaRowListsUpTo(n - 1) IN
       shorter \cup {Append(l, r) : l \in shorter, r \in WysylkaRows}

\* what a second lookup finds
SecondLookupRows ==
  {<<>>} \cup {<<WysylkaRow(JsString(MrnText(p, "C")), NoPayload)>> : p \in MrnPrefixes}

\* a row of the date query
RejestrRow(sadueId, sadueSupplementId, pozRej, mrn) ==
  [IDSADU |-> sadueId, IDSADUUZUP |-> sadueSupplementId, NRKONWPISU |-> pozRej, MRN |-> mrn]

\* rows by what identifies their declaration, with two parameters that
\* transmission records are filed under and the lookups a reader of the row
\* expects for it, in order
IdentifiedRows ==
  { [row |-> RejestrRow(JsNumber(<<"1">>), JsNumber(<<"2">>), JsNull, JsNull),
     first |-> NumberParameter(2), second |-> NumberParameter(1),
     lookups |-> <<NumberParameter(2), NumberParameter(1)>>],
    [row |-> RejestrRow(JsString(<<" ", "1", " ">>), JsNull, JsNull, JsNull),
     first |-> NumberParameter(1), second |-> NumberParameter(2),
     lookups |-> <<NumberParameter(1)>>],
    [row |-> RejestrRow(JsNull, JsNumber(<<"2">>), JsNull, JsNull),
     first |-> NumberParameter(2), second |-> NumberParameter(1),
     lookups |-> <<NumberParameter(2)>>],
    [row |-> RejestrRow(JsNull, JsNull, JsString(<<"7">>), JsNull),
     first |-> NumberParameter(7), second |-> StringParameter(<<"7">>),
     lookups |-> <<NumberParameter(7), StringParameter(<<"7">>)>>],
    [row |-> RejestrRow(JsNull, JsNull, JsString(<<"A", "7">>), JsNull),
     first |-> StringParameter(<<"A", "7">>), second |-> NumberParameter(7),
     lookups |-> <<StringParameter(<<"A", "7">>)>>],
    [row |-> RejestrRow(JsNull, JsNull, JsNull, JsNull),
     first |-> NumberParameter(1), second |-> NumberParameter(2),
     lookups |-> <<>>] }

NoKod == NullText

ResolveCall(date, env, rows, wysylki, zgloszenieKod) ==
  [op |-> "fetchRejestrEntriesByDeclarationDate", date |-> date, env |-> env,
   rows |-> rows, wysylki |-> wysylki, zgloszenieKod |-> zgloszenieKod]

\* one row, every content of the lookups made for it; `lookups` keeps the
\* parameters the row is expected to be looked up by
LookupRequests ==
  { [op |-> "fetchRejestrEntriesByDeclarationDate", date |-> date, env |-> NotAString,
     rows |-> <<identified.row>>,
     wysylki |-> { [parameter |-> identified.first, rows |-> firstRows],
                   [parameter |-> identified.second, rows |-> secondRows] },
     zgloszenieKod |-> NoKod, lookups |-> identified.lookups] :
      date \in QueryDates, identified \in IdentifiedRows,
      firstRows \in WysylkaRowListsUpTo(MaxWysylkaRows), secondRows \in SecondLookupRows }

\* what REJESTR_PREFER_WYSYLKICELINA_MRN is set to
EnvValues ==
  { NotAString, <<>>, <<"0">>, <<"F", "a", "l", "s", "e">>, <<" ", "o", "f", "f">>,
    <<"1">>, <<"m", "a", "y", "b", "e">> }

SourceMrns ==
  {JsNull, JsString(<<" ">>)} \cup {JsString(MrnText(p, "S")) : p \in MrnPrefixes}

\* one row with a directly-joined MRN and one transmission record at most
SelectionRequests ==
  { ResolveCall(date, env,
                <<RejestrRow(JsNumber(<<"1">>), supplement, JsNull, source)>>,
                { [parameter |-> IF supplement = JsNull THEN NumberParameter(1)
                                 ELSE NumberParameter(2),
                   rows |-> found] },
                kod) :
      date \in QueryDates, env \in EnvValues, supplement \in {JsNull, JsNumber(<<"2">>)},
      source \in SourceMrns, found \in WysylkaRowListsUpTo(1),
      kod \in {NoKod, Text(<<"Z", "C", "4", "2", "8">>), Text(<<"Z", "C", "4", "2", "9">>)} }

\* two rows of one declaration
BatchRequests ==
  { ResolveCall(date, NotAString,
                <<RejestrRow(JsNumber(<<"1">>), JsNull, JsNull, source),
                  RejestrRow(JsNumber(<<"1">>), supplement, JsNull, JsNull)>>,
                { [parameter |-> NumberParameter(1), rows |-> found] },
                NoKod) :
      date \in QueryDates, supplement \in {JsNull, JsNumber(<<"2">>)},
      source \in SourceMrns, found \in WysylkaRowListsUpTo(1) }

\* two rows, the first for declaration 1, the second for declaration 2 as a
\* supplement of declaration 1 (IDSADU and IDSADUUZUP both hold SADUE ids)
SupplementedRequests ==
  { ResolveCall(date, NotAString,
                <<RejestrRow(JsNumber(<<"1">>), JsNull, JsNull, JsNull),
                  RejestrRow(JsNumber(<<"2">>), JsNumber(<<"1">>), JsNull, JsNull)>>,
                { [parameter |-> NumberParameter(1), rows |-> found] },
                NoKod) :
      date \in QueryDates, found \in WysylkaRowListsUpTo(1) }

ResolveRequests ==
  LookupRequests \cup SelectionRequests \cup BatchRequests \cup SupplementedRequests

\* ---------------------------------------------------------------- ResolveSpec
\* One run of the row loop of fetchRejestrEntriesByDeclarationDate per
\* behaviour, on any generated query result and table contents.
ResolveInit ==
  /\ PoolInit
  /\ request \in ResolveRequests
  /\ reply = NoCall

ResolveEntries ==
  /\ request.op = "fetchRejestrEntriesByDeclarationDate"
  /\ reply = NoCall
  /\ reply' = rejestrEntries(normalizedText(request.date), request.env, request.rows,
                             request.wysylki, request.zgloszenieKod)
  /\ UNCHANGED <<poolVars, att, cli, sd, pc, lease, err, work, rb, recycleArg, request>>

ResolveNext == ResolveEntries

ResolveSpec == ResolveInit /\ [][ResolveNext]_vars

\* ---------------------------------------------------------------- C19
\* the resolver ran for one row whose lookups are known
Resolved ==
  /\ request.op = "fetchRejestrEntriesByDeclarationDate"
  /\ "lookups" \in DOMAIN request
  /\ reply # NoCall

\* the MRN values a transmission record holds: its MRN column, then the MRN
\* of its payload
CandidatesOfRecord(record) ==
  (IF record.NRMRNDOK = JsNull THEN <<>> ELSE <<record.NRMRNDOK.text>>)
  \o (IF record.mapped = NoPayload THEN <<>>
      ELSE <<MrnText(CHOOSE p \in MrnPrefixes :
                       record.mapped = PayloadWithMrn(MrnText(p, "B")), "B")>>)

\* the transmission records filed under a parameter
RecordsUnder(parameter) ==
  (CHOOSE e \in request.wysylki : e.parameter = parameter).rows

\* the candidate MRN values found for the declaration, in the order met
CandidatesFound ==
  flatten([l \in 1..Len(request.lookups) |->
             LET records == RecordsUnder(request.lookups[l]) IN
             flatten([r \in 1..Len(records) |-> CandidatesOfRecord(records[r])])])

\* the two-digit year of the query date
QueryYear == SubSeq(request.date, 3, 4)

EmbedsYear(candidate) == SubSeq(candidate, 1, 2) = QueryYear

\* the year is followed by a two-letter country code
EmbedsYearAndCountry(candidate) ==
  /\ EmbedsYear(candidate)
  /\ candidate[3] \in UpperChars \cup LowerChars
  /\ candidate[4] \in UpperChars \cup LowerChars

\* the resolver's result is a candidate that has the property whenever some
\* candidate found has it, and the first candidate found (null when none was
\* found) when no candidate has it
PrefersCandidates(has(_)) ==
  LET found == CandidatesFound
      result == reply.entries[1].resolvedMrn
  IN  IF \E i \in 1..Len(found) : has(found[i])
      THEN /\ ~result.isNull
           /\ \E i \in 1..Len(found) : found[i] = result.text
           /\ has(result.text)
      ELSE result = IF found = <<>> THEN NullText ELSE Text(found[1])

\* C19 (as stated): the resolver returns a candidate that has the query
\* date's two-digit year as its first two characters whenever at least one
\* candidate found does, whatever the order, and the first candidate found
\* only when none does.
C19_YearPreferred == Resolved => PrefersCandidates(EmbedsYear)

\* C19 (amended): the resolver returns a candidate that starts with the query
\* date's two-digit year followed by a two-letter country code whenever at
\* least one candidate found does, whatever the order, and the first
\* candidate found only when none does.
C19_YearAndCountryPreferred == Resolved => PrefersCandidates(EmbedsYearAndCountry)

\* C19 witness: for 2025-01-03 a candidate beginning "24" was found first, in
\* the MRN column of the first record, and the resolver returned the candidate
\* beginning "25PL" from the payload of the second record
C19_Witness ==
  /\ Resolved
  /\ request.date = <<"2", "0", "2", "5", "-", "0", "1", "-", "0", "3">>
  /\ Len(CandidatesFound) >= 2
  /\ CandidatesFound[1] = MrnText(<<"2", "4", "P", "L">>, "A")
  /\ reply.entries[1].resolvedMrn = Text(MrnText(<<"2", "5", "P", "L">>, "B"))

\* a candidate beginning "25" without a country code was found after one
\* beginning "24", and the one beginning "24" was returned
YearWithoutCountryPassedOver ==
  /\ Resolved
  /\ request.date = <<"2", "0", "2", "5", "-", "0", "1", "-", "0", "3">>
  /\ CandidatesFound = << MrnText(<<"2", "4", "P", "L">>, "A"),
                          MrnText(<<"2", "5", "1", "2">>, "B") >>
  /\ reply.entries[1].resolvedMrn = Text(MrnText(<<"2", "4", "P", "L">>, "A"))

\* ---------------------------------------------------------------- C20
EntriesReturned ==
  request.op = "fetchRejestrEntriesByDeclarationDate" /\ reply # NoCall

\* REJESTR_PREFER_WYSYLKICELINA_MRN leaves the preference flag set
FlagSet ==
  request.env \notin {<<"0">>, <<"F", "a", "l", "s", "e">>, <<" ", "o", "f", "f">>}

\* the directly-joined MRN of the i-th row, <<>> when the row has none
SourceOf(i) ==
  IF request.rows[i].MRN = JsNull THEN <<>> ELSE trim(request.rows[i].MRN.text)

\* the MRN resolved from transmission records for the i-th row, <<>> when none
ResolvedOf(i) ==
  IF reply.entries[i].resolvedMrn.isNull THEN <<>> ELSE reply.entries[i].resolvedMrn.text

HasSupplement(i) == request.rows[i].IDSADUUZUP # JsNull

PassesYearCheck(mrn) == EmbedsYearAndCountry(mrn)

\* C20: when the directly-joined MRN and the MRN resolved from transmission
\* records are both present and both pass, or both fail, the year check, the
\* MRN selected for the entry is the resolved one if the preference flag is
\* set or the entry has a supplement declaration, and the directly-joined one
\* otherwise; a year mismatch is only logged: every row gets its entry, and
\* the selection is not null while a candidate is present.
C20_SourcePreference ==
  EntriesReturned =>
    /\ Len(reply.entries) = Len(request.rows)
    /\ \A i \in 1..Len(request.rows) :
         LET source == SourceOf(i)
             resolved == ResolvedOf(i)
             selected == reply.entries[i].selected
         IN  /\ ( /\ source # <<>>
                  /\ resolved # <<>>
                  /\ PassesYearCheck(source) <=> PassesYearCheck(resolved) )
                => selected = IF FlagSet \/ HasSupplement(i) THEN Text(resolved)
                              ELSE Text(source)
             /\ (source # <<>> \/ resolved # <<>>) =>
                  /\ ~selected.isNull
                  /\ selected.text \in {source, resolved}
                  /\ selected.text # <<>>
             /\ (~selected.isNull /\ ~PassesYearCheck(selected.text)) =>
                  \E w \in 1..Len(reply.warnings) :
                    reply.warnings[w] = Warning("year mismatch", "selected")

\* C20 witness: the flag is off, the row has a supplement declaration, both
\* values are present and pass the year check, and the resolved one is selected
C20_Witness ==
  /\ EntriesReturned
  /\ request.env = <<"0">>
  /\ HasSupplement(1)
  /\ SourceOf(1) # <<>> /\ ResolvedOf(1) # <<>> /\ SourceOf(1) # ResolvedOf(1)
  /\ PassesYearCheck(SourceOf(1)) /\ PassesYearCheck(ResolvedOf(1))
  /\ reply.entries[1].selected = Text(ResolvedOf(1))

\* the flag is off, there is no supplement declaration, both values fail the
\* year check, the directly-joined one is selected and the mismatch is logged
SourceKeptDespiteMismatch ==
  /\ EntriesReturned
  /\ request.env = <<"F", "a", "l", "s", "e">>
  /\ ~HasSupplement(1)
  /\ SourceOf(1) # <<>> /\ ResolvedOf(1) # <<>> /\ SourceOf(1) # ResolvedOf(1)
  /\ ~PassesYearCheck(SourceOf(1)) /\ ~PassesYearCheck(ResolvedOf(1))
  /\ reply.entries[1].selected = Text(SourceOf(1))
  /\ \E w \in 1..Len(reply.warnings) :
       reply.warnings[w] = Warning("year mismatch", "selected")

\* the entry of a ZC428 payload carries the placeholder in place of the
\* selected MRN
PlaceholderShown ==
  /\ EntriesReturned
  /\ ~reply.entries[1].selected.isNull
  /\ reply.entries[1].mrn = Text(RegisteredPlaceholder)
  /\ reply.entries[1].mrn # reply.entries[1].selected


\* ================================================================ C22
\* the buffer starts with neither byte-order mark
NoMark(b) == ~StartsWith(b, <<255, 254>>) /\ ~StartsWith(b, <<254, 255>>)

\* how many zero bytes of b sit at offsets (0-based) of the given parity
ZerosAt(b, parity) ==
  Cardinality({i \in 1..Len(b) : b[i] = 0 /\ (i - 1) % 2 = parity})

\* at least 20% of the bytes are zero
ManyZeros(b) == 5 * (ZerosAt(b, 0) + ZerosAt(b, 1)) >= Len(b)

\* the code units read from the byte pairs of b, the low byte first or last
UnitsOf(b, lowFirst) ==
  [k \in 1..(Len(b) \div 2) |->
     IF lowFirst THEN b[2 * k - 1] + 256 * b[2 * k]
     ELSE 256 * b[2 * k - 1] + b[2 * k]]

\* every byte is a character of ASCII, NUL included: the UTF-8 step gives
\* one code unit per byte
AsciiBytes(b) == \A i \in 1..Len(b) : b[i] < 128

\* C22: bufferToUtf8OrBase64 treats a buffer without a byte-order mark as
\* UTF-16 only when at least 20% of its bytes are zero and the zeros are
\* skewed to the odd or to the even offsets: zeros at the odd offsets (the
\* high bytes) give little-endian, zeros at the even offsets big-endian.  A
\* buffer with at least 20% zero bytes and as many zeros at odd as at even
\* offsets is not read as UTF-16 and goes on to the UTF-8 step, as does a
\* buffer with fewer zeros.
C22_SkewDecidesUtf16 ==
  (Detected /\ Len(request.buffer) > 0 /\ NoMark(request.buffer)) =>
    LET b == request.buffer
        odd == ZerosAt(b, 1)
        even == ZerosAt(b, 0)
    IN  /\ (ManyZeros(b) /\ odd > even) => reply.text = UnitsOf(b, TRUE)
        /\ (ManyZeros(b) /\ even > odd) => reply.text = UnitsOf(b, FALSE)
        /\ (ManyZeros(b) /\ even = odd /\ AsciiBytes(b)) => reply.text = b
        /\ (~ManyZeros(b) /\ AsciiBytes(b)) => reply.text = b


\* ================================================================ C29
\* callers whose destroyLease call (from acquire or from release) is running
Destroying == {c \in Callers : pc[c] \in {"acq_destroy", "rel_destroy"}}

\* the leases that exist: held by a caller, in the available set, or being
\* destroyed by a caller's destroyLease or by a task of destroyAll
LeasesInExistence ==
  Cardinality(Holders) + Len(available) + Cardinality(Destroying) + Cardinality(sd)

\* every call that was made has settled
AllSettled == \A c \in Callers : pc[c] \in {"idle", "done", "pending"}

\* total is not negative, counts the leases that exist, and is 0 once the
\* pool is closed, every call has settled and every destruction has ended
TotalCountsLeases ==
  /\ total >= 0
  /\ total = LeasesInExistence
  /\ (closed /\ AllSettled /\ sd = {}) => total = 0

\* a createLease that rejects leaves total as it was
FailedCreationKeepsTotal ==
  \A c \in Callers :
    (pc[c] = "creating" /\ pc'[c] = "done") => (err'[c] = "connect" /\ total' = total)

\* C29: total is never negative and in every reachable state equals the
\* number of leases that exist (held by a caller, in the available set, or
\* being destroyed); a failed lease creation leaves it unchanged; once the
\* pool is closed and every held lease has been released it is 0.
C29_TotalCountsLeases ==
  []TotalCountsLeases /\ [][FailedCreationKeepsTotal]_vars

\* The pool is closed and empty again, total is 0, after one call ran to
\* its end with a lease and another failed to create one.
C29_Witness ==
  /\ closed /\ AllSettled /\ sd = {} /\ total = 0
  /\ \E c \in Callers : pc[c] = "done" /\ err[c] = "none"
  /\ \E c \in Callers : pc[c] = "done" /\ err[c] = "connect"

\* total counts a held lease, an available lease and a lease being destroyed
C29_EveryKindCounted ==
  /\ Holders # {} /\ available # <<>> /\ Destroying # {}
  /\ total = 3


\* ================================================================ C30
\* C30: an acquire call that is suspended in the pending queue when
\* destroyAll runs does not stay suspended forever: once the pool is closed
\* and the leases in flight have been released, the call has completed,
\* with a lease or with an error.
C30_SuspendedAtShutdownCompletes ==
  \A c \in Callers : (closed /\ pc[c] = "pending") ~> (pc[c] # "pending")


\* ================================================================ path inputs
\* the most wrapper elements around a sought element, and the longest
\* generated array
MaxWrappers == 2
MaxElements == 2

\* a call of getValueAtPath; `about` names the family of the input and
\* `given` holds what the input was built from
PathCall(root, path, about, given) ==
  [op |-> "getValueAtPath", root |-> root, path |-> path, about |-> about,
   given |-> given]

\* an element with the child C = "x" and the given other keys, C first or last
SoughtText == <<"x">>
ElementWithC(others, soughtFirst) ==
  LET otherValues == [i \in 1..Len(others) |-> JsString(<<"o">>)] IN
  IF soughtFirst
  THEN JsObject(<<"C">> \o others, <<JsString(SoughtText)>> \o otherValues)
  ELSE JsObject(others \o <<"C">>, otherValues \o <<JsString(SoughtText)>>)

\* `levels` wrapper elements W around a node, each with an attribute or not
RECURSIVE Wrapped(_, _, _)
Wrapped(node, levels, withAttribute) ==
  IF levels = 0 THEN node
  ELSE LET inner == Wrapped(node, levels - 1, withAttribute) IN
       IF withAttribute
       THEN JsObject(<<"@_id", "W">>, <<JsString(<<"1">>), inner>>)
       ELSE JsObject(<<"W">>, <<inner>>)

\* the keys an element may hold besides C
OtherKeyLists == {<<>>, <<"@_id">>, <<"D">>, <<"@_id", "D">>, <<"D", "E">>}

\* how many of the keys are elements, not attributes
ElementCount(keys) == Cardinality({i \in 1..Len(keys) : keys[i] \notin AttributeKeys})

\* path C against an element with C behind 1..MaxWrappers single-child wrappers
WrapperRequests ==
  {PathCall(Wrapped(ElementWithC(others, first), levels, attr), PathOf(<<"C">>),
            "wrapper", [siblings |-> ElementCount(others), levels |-> levels]) :
     others \in OtherKeyLists, first \in BOOLEAN, levels \in 1..MaxWrappers,
     attr \in BOOLEAN}

\* the elements of a generated array: <B>x</B>, <B>y</B> inside an element,
\* or a bare text
ArrayElements ==
  {JsObject(<<"B">>, <<JsString(<<"x">>)>>), JsObject(<<"B">>, <<JsString(<<"y">>)>>),
   JsString(<<"s">>)}

RECURSIVE ElementListsUpTo(_)
ElementListsUpTo(n) ==
  IF n = 0 THEN {<<>>}
  ELSE LET shorter == ElementListsUpTo(n - 1) IN
       shorter \cup {Append(l, e) : l \in shorter, e \in ArrayElements}

\* paths A.B and A[i].B against {A: [items]}
ArrayRequests ==
  {PathCall(JsObject(<<"A">>, <<JsArray(items)>>),
            Path(<<Segment("A", i), Segment("B", NoIndex)>>),
            "array", [items |-> items, index |-> i]) :
     items \in ElementListsUpTo(MaxElements), i \in {NoIndex} \cup 0..MaxElements}

\* the documents {A:{B:{C:"x"}}} and {A:{B:{}}}, an element with two
\* children, and the paths A.B.C, A.Z and A[0].B against them; `given` is
\* the text the path leads to
Nested(inner) == JsObject(<<"A">>, <<JsObject(<<"B">>, <<inner>>)>>)

PlainRequests ==
  { PathCall(Nested(JsObject(<<"C">>, <<JsString(<<"x">>)>>)), PathOf(<<"A", "B", "C">>),
             "plain", Text(<<"x">>)),
    PathCall(Nested(JsObject(<<>>, <<>>)), PathOf(<<"A", "B", "C">>), "plain", NullText),
    PathCall(JsObject(<<"A">>, <<ElementWithC(<<"D">>, TRUE)>>), PathOf(<<"A", "Z">>),
             "plain", NullText),
    PathCall(JsObject(<<"A">>, <<ElementWithC(<<"D">>, TRUE)>>), PathOf(<<"A", "C">>),
             "plain", Text(<<"x">>)),
    PathCall(Nested(JsString(<<"x">>)), MalformedPath, "malformed", NullText) }

\* what a path may end on, each with the text it holds (NullText: none):
\* scalars, elements with and without text content, and arrays
TerminalNodes ==
  { [node |-> JsString(<<"x">>), holds |-> Text(<<"x">>)],
    [node |-> JsNumber(<<"1", "2">>), holds |-> Text(<<"1", "2">>)],
    [node |-> JsNumber(<<"t", "r", "u", "e">>), holds |-> Text(<<"t", "r", "u", "e">>)],
    [node |-> JsNull, holds |-> NullText],
    [node |-> JsObject(<<"@_id", "#text">>, <<JsString(<<"1">>), JsString(<<"x">>)>>),
     holds |-> Text(<<"x">>)],
    [node |-> JsObject(<<"#text", "@_id">>, <<JsNumber(<<"1", "2">>), JsString(<<"1">>)>>),
     holds |-> Text(<<"1", "2">>)],
    [node |-> JsObject(<<"@_id">>, <<JsString(<<"1">>)>>), holds |-> NullText],
    [node |-> JsObject(<<"D", "E">>, <<JsString(<<"o">>), JsString(<<"o">>)>>),
     holds |-> NullText],
    [node |-> JsArray(<<JsNull, JsString(<<"x">>), JsString(<<"y">>)>>),
     holds |-> Text(<<"x">>)],
    [node |-> JsArray(<<JsObject(<<"D", "E">>, <<JsString(<<"o">>), JsString(<<"o">>)>>),
                        JsNumber(<<"1", "2">>)>>),
     holds |-> Text(<<"1", "2">>)],
    [node |-> JsArray(<<>>), holds |-> NullText] }

\* path A against {A: node}, and path A[0] against {A: [node]}
TerminalRequests ==
  {PathCall(JsObject(<<"A">>, <<t.node>>), PathOf(<<"A">>), "terminal", t) :
     t \in {u \in TerminalNodes : u.node.type # "array"}}
  \cup {PathCall(JsObject(<<"A">>, <<JsArray(<<t.node>>)>>),
                 Path(<<Segment("A", 0)>>), "terminal", t) : t \in TerminalNodes}

PathRequests == WrapperRequests \cup ArrayRequests \cup PlainRequests \cup TerminalRequests

\* ---------------------------------------------------------------- PathSpec
PathInit ==
  /\ PoolInit
  /\ request \in PathRequests
  /\ reply = NoCall

ResolvePath ==
  /\ request.op = "getValueAtPath"
  /\ reply = NoCall
  /\ reply' = LET got == getValueAtPath(request.root, request.path) IN
              [op |-> "value", threw |-> got.threw, value |-> got.value]
  /\ UNCHANGED <<poolVars, att, cli, sd, pc, lease, err, work, rb, recycleArg, request>>

PathNext == ResolvePath

PathSpec == PathInit /\ [][PathNext]_vars

PathResolved == request.op = "getValueAtPath" /\ reply # NoCall


\* ================================================================ C23
\* C23: when the path key C is missing on a node with exactly one
\* non-attribute child, the child takes the node's place and C is looked up
\* on it, so C is found on the child however many children the child has,
\* also when C is the child's only entry.
C23_KeyFoundBehindWrapper ==
  (PathResolved /\ request.about = "wrapper") =>
    (~reply.threw /\ reply.value = Text(SoughtText))

\* ================================================================ C24
\* what A[index].B leads to in {A: [items]}: nothing without an index,
\* nothing past the end of the array, nothing on an element without B
LeadsTo(items, index) ==
  IF index = NoIndex \/ index >= Len(items) THEN NullText
  ELSE IF items[index + 1].type # "object" THEN NullText
  ELSE Text(items[index + 1].values[1].text)

\* C24: an array is followed only through a segment with an index: A.B on
\* {A: [..]} is null, never the first element's B; a missing key or an index
\* past the end is null; a well-formed path never throws; A.B.C is "x" on
\* {A:{B:{C:"x"}}} and null on {A:{B:{}}}.
C24_ArraysNeedAnIndex ==
  PathResolved =>
    /\ ~request.path.malformed => ~reply.threw
    /\ request.about = "array" =>
         reply.value = LeadsTo(request.given.items, request.given.index)
    /\ request.about = "plain" => reply.value = request.given

\* an un-indexed segment landed on an array whose first element holds B,
\* and the path resolved to null
C24_Witness ==
  /\ PathResolved /\ request.about = "array"
  /\ request.given.index = NoIndex
  /\ request.given.items # <<>>
  /\ ~LeadsTo(request.given.items, 0).isNull
  /\ reply.value.isNull /\ ~reply.threw

\* an index past the end of a non-empty array resolved to null
C24_PastTheEnd ==
  /\ PathResolved /\ request.about = "array"
  /\ request.given.index >= Len(request.given.items)
  /\ request.given.items # <<>>
  /\ reply.value.isNull

\* ================================================================ C25
\* C25: the node a path ends on is returned as a string: a scalar as its
\* string form, an array as its first element that has one, an element as
\* its text content (#text) whatever scalar type the parser gave that
\* content; null only when the node holds no text.
C25_TerminalCoerced ==
  (PathResolved /\ request.about = "terminal") =>
    (~reply.threw /\ reply.value = request.given.holds)

\* the same with the text content of an element required to be a string
C25_StringTextOnly ==
  (PathResolved /\ request.about = "terminal"
     /\ ~(request.given.node.type = "object"
          /\ property(request.given.node, "#text").type = "number")) =>
    (~reply.threw /\ reply.value = request.given.holds)

\* C23 with the wrapped element required to have another child than C
C23_WithSibling ==
  (PathResolved /\ request.about = "wrapper" /\ request.given.siblings >= 1) =>
    (~reply.threw /\ reply.value = Text(SoughtText))


\* ================================================================ C26
\* C26: a candidate value that fails the field's regex, or whose field has a
\* regex that does not compile, is not accepted and the next candidate path
\* is tried; a field never gets a value from its paths unless the regex it
\* declares was compiled and matched that value.
C26_RegexMustApply ==
  (FieldResolved /\ request.fields[1].regex # NoPattern
     /\ ~AggregatorYields(request.fields[1])) =>
    LET field == request.fields[1]
        resolution == reply.resolutions[1]
    IN  ~resolution.resolved.isNull =>
          /\ compiles(field.regex)
          /\ test(field.regex, resolution.resolved.text)

\* the same for the regexes that compile
C26_CompiledRegexApplied ==
  (FieldResolved /\ request.fields[1].regex # NoPattern
     /\ compiles(request.fields[1].regex)
     /\ ~AggregatorYields(request.fields[1])) =>
    (~reply.resolutions[1].resolved.isNull =>
       test(request.fields[1].regex, reply.resolutions[1].resolved.text))


\* ================================================================ LogSpec
\* One process making up to MaxCalls calls of the extraction engine, one
\* after the other; the module-level caches and the console outlive each call.
MaxCalls == 3

\* the process so far: the caches, what console.warn was given, the calls
\* made, and the field resolutions of the latest call
Process(caches, log, history, last) ==
  [op |-> "process", caches |-> caches, log |-> log, history |-> history,
   last |-> last]

LogFieldLists ==
  { << Field("value", <<MrnPath, LrnPath>>, DigitsPattern, NoAggregate) >>,
    << Field("value", <<LrnPath, MrnPath>>, DigitsPattern, NoAggregate) >>,
    << Field("a", <<MrnPath>>, DigitsPattern, NoAggregate),
       Field("b", <<MrnPath, LrnPath>>, DigitsPattern, NoAggregate) >> }

\* calls of extractFieldsFromXml on messages whose MRN and LRN are given
LogCalls ==
  { [op |-> "extractFieldsFromXml", xml |-> SomeXml,
     parse |-> TransitMessage(JsString(mrn), JsString(lrn), JsUndefined),
     fields |-> fields, sourceKey |-> "odpowiedzXml",
     given |-> [mrn |-> mrn, lrn |-> lrn]] :
      mrn \in {<<"x">>, <<"y">>, <<"1", "2">>}, lrn \in {<<"z">>, <<"1", "2">>},
      fields \in LogFieldLists }

\* rows whose ODPOWIEDZXML is a message with the given MRN
LogRows ==
  { [op |-> "parseXmlFieldsForWysylkaRow",
     row |-> [odpowiedzXml |-> Cell(JsString(SomeXml),
                                    TransitMessage(JsString(mrn), JsUndefined, JsUndefined)),
              dokumentXml |-> Cell(JsUndefined, ParseThrows)],
     given |-> [mrn |-> mrn, lrn |-> <<>>]] :
      mrn \in {<<"x">>, <<"y">>} }

LogInit ==
  /\ PoolInit
  /\ request = [op |-> "process"]
  /\ reply = Process(NoCaches, <<>>, <<>>, <<>>)

ExtractCall ==
  /\ request.op = "process"
  /\ Len(reply.history) < MaxCalls
  /\ \E call \in LogCalls :
       reply' = LET logged(got) ==
                      Process(got.caches, reply.log \o got.warnings,
                              Append(reply.history, call), got.resolutions)
                IN  logged(extractFieldsFromXml(call.xml, call.parse, call.fields,
                                                call.sourceKey, reply.caches))
  /\ UNCHANGED <<poolVars, att, cli, sd, pc, lease, err, work, rb, recycleArg, request>>

RowCall ==
  /\ request.op = "process"
  /\ Len(reply.history) < MaxCalls
  /\ \E call \in LogRows :
       reply' = LET logged(got) ==
                      Process(got.caches, reply.log \o got.warnings,
                              Append(reply.history, call), <<>>)
                IN  logged(parseXmlFieldsForWysylkaRow(call.row, reply.caches))
  /\ UNCHANGED <<poolVars, att, cli, sd, pc, lease, err, work, rb, recycleArg, request>>

LogNext ==
  \/ ExtractCall
  \/ RowCall

LogSpec == LogInit /\ [][LogNext]_vars

\* ---------------------------------------------------------------- C27
\* the regex-mismatch warnings among what was logged
MismatchWarnings == SelectSeq(reply.log, LAMBDA w : w.kind = "mismatch")

\* the text a generated message holds at a candidate path, <<>> when none
HeldAt(call, path) ==
  IF path = MrnPath THEN call.given.mrn
  ELSE IF path = LrnPath THEN call.given.lrn
  ELSE <<>>

\* the value at the i-th path of the field fails the field's regex
Mismatches(call, field, i) ==
  /\ HeldAt(call, field.paths[i]) # <<>>
  /\ ~test(field.regex, HeldAt(call, field.paths[i]))

\* the calls made so far in which some field's path `path` held a value
\* failing `pattern`
CallsMismatching(pattern, path) ==
  {n \in 1..Len(reply.history) :
     /\ reply.history[n].op = "extractFieldsFromXml"
     /\ \E k \in 1..Len(reply.history[n].fields) :
          LET field == reply.history[n].fields[k] IN
          /\ field.regex = pattern
          /\ \E i \in 1..Len(field.paths) :
               /\ field.paths[i] = path
               /\ Mismatches(reply.history[n], field, i)
               /\ \A j \in 1..(i - 1) : Mismatches(reply.history[n], field, j)}

\* C27: over any sequence of extraction calls of one process no
\* regex-mismatch warning for one (pattern, path) pair is logged twice,
\* whatever the documents and rows, and in every call a path whose value
\* failed the regex is followed by the evaluation of the next path.
C27_MismatchLoggedOnce ==
  request.op = "process" =>
    /\ \A i, j \in 1..Len(MismatchWarnings) :
         MismatchWarnings[i] = MismatchWarnings[j] => i = j
    /\ (reply.history # <<>> /\ reply.history[Len(reply.history)].op = "extractFieldsFromXml") =>
         LET call == reply.history[Len(reply.history)] IN
         \A k \in 1..Len(call.fields) :
           \A i \in 1..(Len(call.fields[k].paths) - 1) :
             ( /\ \E e \in 1..Len(reply.last[k].evaluated) : reply.last[k].evaluated[e] = i
               /\ Mismatches(call, call.fields[k], i) ) =>
               \E e \in 1..Len(reply.last[k].evaluated) : reply.last[k].evaluated[e] = i + 1

\* two calls on different documents both met a value failing \d+ at the MRN
\* path; it was logged once, and the latest call went on to the LRN path
\* and took its value
C27_Witness ==
  /\ request.op = "process"
  /\ \E m, n \in CallsMismatching(DigitsPattern, MrnPath) :
       /\ m < n /\ n = Len(reply.history)
       /\ reply.history[m].given.mrn # reply.history[n].given.mrn
       /\ reply.history[n].fields = << Field("value", <<MrnPath, LrnPath>>, DigitsPattern, NoAggregate) >>
       /\ reply.last[1].evaluated = <<1, 2>>
       /\ reply.last[1].resolved = Text(<<"1", "2">>)
  /\ Len(SelectSeq(reply.log,
                   LAMBDA w : w = Warning("mismatch", <<DigitsPattern, MrnPath>>))) = 1

\* the same row-produced mismatch met twice was logged once
C27_RowsLoggedOnce ==
  /\ request.op = "process"
  /\ Len(reply.history) = 2
  /\ \A n \in 1..2 : reply.history[n].op = "parseXmlFieldsForWysylkaRow"
  /\ reply.history[1].given.mrn # reply.history[2].given.mrn
  /\ Len(SelectSeq(reply.log,
                   LAMBDA w : w = Warning("mismatch",
                                          <<MrnPattern, wysylkaXmlConfig[1].fields[1].paths[1]>>))) = 1


\* ================================================================ C28
\* a run of the resolver over the rows of one query result has returned
BatchResolved ==
  /\ request.op = "fetchRejestrEntriesByDeclarationDate"
  /\ reply # NoCall

\* every memoized key was looked up by one query and holds one result
OncePerKey ==
  /\ Len(reply.memo.queries) = Cardinality(reply.memo.cache)
  /\ \A e1, e2 \in reply.memo.cache : e1.key = e2.key => e1 = e2

\* C28: in one run of the resolver the transmission-record lookup of a
\* declaration id, supplement id or raw registry key is executed at most
\* once however many rows reference it, and no query with the same
\* statement and the same parameter is executed twice.
C28_NoQueryRepeated ==
  BatchResolved =>
    /\ OncePerKey
    /\ \A i, j \in 1..Len(reply.memo.queries) :
         reply.memo.queries[i] = reply.memo.queries[j] => i = j

\* the same without the part on identical queries
C28_OncePerKey == BatchResolved => OncePerKey

\* two rows of one declaration were resolved with one query
C28_Reused ==
  /\ BatchResolved
  /\ Len(request.rows) = 2
  /\ request.rows[1].IDSADU = request.rows[2].IDSADU
  /\ request.rows[2].IDSADUUZUP = JsNull
  /\ Len(reply.entries) = 2
  /\ reply.memo.queries = <<NumberParameter(1)>>


\* ================================================================ usualRejestrRepository
\* line 68
WYSYLKICELINA_ZC_LOOKBACK_LIMIT == 8

\* line 175: no more than this many codes are taken from one text
MaxCodesPerText == 30

\* a Set of strings in insertion order, after adding the strings of `more`
RECURSIVE addAll(_, _)
addAll(codes, more) ==
  IF more = <<>> THEN codes
  ELSE addAll(IF \E i \in 1..Len(codes) : codes[i] = Head(more) THEN codes
              ELSE Append(codes, Head(more)),
              Tail(more))

\* /([A-Z]{2}\d{3}[A-Z]{0,2})/ matches at position p of s
codeAt(s, p) ==
  /\ p + 4 <= Len(s)
  /\ s[p] \in UpperChars /\ s[p + 1] \in UpperChars
  /\ IsDigit(s[p + 2]) /\ IsDigit(s[p + 3]) /\ IsDigit(s[p + 4])

\* the length of the match at p: the letters after the digits are taken greedily
codeLength(s, p) ==
  IF p + 5 <= Len(s) /\ s[p + 5] \in UpperChars
  THEN IF p + 6 <= Len(s) /\ s[p + 6] \in UpperChars THEN 7 ELSE 6
  ELSE 5

\* extractCodesFromText, lines 169-179: regex.exec from position p on
RECURSIVE execCodes(_, _, _)
execCodes(normalized, p, codes) ==
  IF p > Len(normalized) \/ Len(codes) >= MaxCodesPerText THEN codes
  ELSE IF codeAt(normalized, p)
  THEN execCodes(normalized, p + codeLength(normalized, p),
                 addAll(codes, <<SubSeq(normalized, p, p + codeLength(normalized, p) - 1)>>))
  ELSE execCodes(normalized, p + 1, codes)

\* extractCodesFromText, lines 162-181
extractCodesFromText(value) ==
  IF ~truthy(value) THEN <<>> ELSE execCodes(toUpperCase(value.text), 1, <<>>)

\* The decoded text of a BLOB column stands for its message: the first
\* character tells the message kind the structural inspection finds in it
\* ("9": ZC429, "8": ZC428, anything else: neither), the rest names the payload.
ZC429 == <<"Z", "C", "4", "2", "9">>
ZC428 == <<"Z", "C", "4", "2", "8">>

extractZgloszenieKodFromXml(xml) ==
  IF Head(xml) = "9" THEN Text(ZC429)
  ELSE IF Head(xml) = "8" THEN Text(ZC428)
  ELSE NullText

extractMessageCodesFromXml(xml) ==
  IF extractZgloszenieKodFromXml(xml).isNull THEN <<>>
  ELSE <<extractZgloszenieKodFromXml(xml).text>>

\* the declaration type and the MRN read from a message, named after it
extractAdditionalDeclarationTypeFromZcXml(xml) == Text(<<"t">> \o xml)
extractMrnFromXmlLoose(xml) == Text(<<"m">> \o xml)

\* best429 / best428, lines 201-202: null, or what a message supplied
NoBest == [found |-> FALSE, xmlDoc |-> <<>>, typ |-> NullText, mrn |-> NullText]
bestFrom(xml) ==
  [found |-> TRUE, xmlDoc |-> xml,
   typ |-> extractAdditionalDeclarationTypeFromZcXml(xml),
   mrn |-> extractMrnFromXmlLoose(xml)]

\* a best428 that a later ZC428 message replaces
keepsFirst428Never(best428) == FALSE

\* `!best428`, lines 239 and 270, negated
keepsFirst428(best428) == best428.found

\* resolveZgloszenieKodForSadue, lines 204-277: the loop over rows from the
\* i-th.  A row holds its three text columns and, for each BLOB column, what
\* decodeZlibBuffer(readBlobAsBuffer(..)).decoded gives (<<>>: null or empty).
RECURSIVE scanZcRows(_, _, _)
scanZcRows(rows, i, acc) ==
  IF i > Len(rows) THEN acc
  ELSE LET row == rows[i]
           responseXml == row.ODPOWIEDZXML
           dokumentXml == row.DOKUMENTXML
           next(state) == scanZcRows(rows, i + 1, state)
           fromDokument(state) ==
             IF dokumentXml = <<>> THEN next(state)
             ELSE LET coded(seen) ==
                        IF extractZgloszenieKodFromXml(dokumentXml) = Text(ZC429)
                        THEN next([seen EXCEPT !.best429 = bestFrom(dokumentXml)])
                        ELSE IF extractZgloszenieKodFromXml(dokumentXml) = Text(ZC428)
                                /\ ~keepsFirst428(seen.best428)
                        THEN next([seen EXCEPT !.best428 = bestFrom(dokumentXml)])
                        ELSE next(seen)
                  IN  coded([state EXCEPT
                               !.allCodes = addAll(@, extractMessageCodesFromXml(dokumentXml))])
           fromResponse(state) ==
             IF responseXml = <<>> THEN fromDokument(state)
             ELSE LET coded(seen) ==
                        IF extractZgloszenieKodFromXml(responseXml) = Text(ZC429)
                        THEN next([seen EXCEPT !.best429 = bestFrom(responseXml)])
                        ELSE IF extractZgloszenieKodFromXml(responseXml) = Text(ZC428)
                                /\ ~keepsFirst428(seen.best428)
                        THEN next([seen EXCEPT !.best428 = bestFrom(responseXml)])
                        ELSE fromDokument(seen)
                  IN  coded([state EXCEPT
                               !.allCodes = addAll(@, extractMessageCodesFromXml(responseXml))])
           named(state) == IF state.best429.found THEN next(state) ELSE fromResponse(state)
       IN  named([acc EXCEPT
                    !.allCodes =
                      addAll(addAll(addAll(@,
                        extractCodesFromText(columnToString(row.NAZWAPLIKU))),
                        extractCodesFromText(columnToString(row.NRWLASNYDOK))),
                        extractCodesFromText(columnToString(row.NRWLASNYKOM)))])

\* a ZgloszenieResolution, lines 135-141
ZgloszenieResolution(kod, kody, typ, mrn, xmlDoc) ==
  [op |-> "zgloszenie", zgloszenieKod |-> kod, zgloszenieKody |-> kody,
   typZgloszenia |-> typ, mrn |-> mrn, xmlDoc |-> xmlDoc]

\* resolveZgloszenieKodForSadue, lines 183-310, on the rows its query returns
resolveZgloszenieKodForSadue(rows) ==
  LET resolved(done) ==
        IF done.best429.found
        THEN ZgloszenieResolution(Text(ZC429), done.allCodes, done.best429.typ,
                                  done.best429.mrn, Text(done.best429.xmlDoc))
        ELSE IF done.best428.found
        THEN ZgloszenieResolution(Text(ZC428), done.allCodes, done.best428.typ,
                                  done.best428.mrn,
                                  IF Len(done.best428.xmlDoc) > 0
                                  THEN Text(done.best428.xmlDoc) ELSE NullText)
        ELSE ZgloszenieResolution(NullText, done.allCodes, NullText, NullText, NullText)
  IN  resolved(scanZcRows(rows, 1,
                          [allCodes |-> <<>>, best429 |-> NoBest, best428 |-> NoBest]))

\* ================================================================ transmission inputs
\* the most transmission records a generated query result holds
MaxRecords == 3

\* the file names of generated records (the query keeps names that start
\* with ZC428 or ZC429, whatever the case)
FileNames ==
  << <<"Z", "C", "4", "2", "8", "_", "7", ".", "x", "m", "l">>,
     <<"z", "c", "4", "2", "9", "a", ".", "X", "M", "L">> >>

\* what a BLOB column of the n-th record decodes to: nothing, or a message
\* of kind ZC429, ZC428 or another kind
Decoded(column, n) ==
  {<<>>} \cup {<<kind, column, DigitChars[n + 1]>> : kind \in {"9", "8", "o"}}

\* the n-th record of a query result, most recent first
ZcRecords(n) ==
  { [NAZWAPLIKU |-> JsString(FileNames[(n % 2) + 1]), NRWLASNYDOK |-> JsNull,
     NRWLASNYKOM |-> JsString(<<" ", "k", "o", "m", "/", "p", "l", "1", "2", "3", "x">>),
     ODPOWIEDZXML |-> response, DOKUMENTXML |-> dokument] :
      response \in Decoded("r", n), dokument \in Decoded("d", n) }

RECURSIVE ZcRowListsUpTo(_)
ZcRowListsUpTo(n) ==
  IF n = 0 THEN {<<>>}
  ELSE LET shorter == ZcRowListsUpTo(n - 1) IN
       shorter \cup {Append(l, r) : l \in {s \in shorter : Len(s) = n - 1}, r \in ZcRecords(n)}

KodRequests ==
  { [op |-> "resolveZgloszenieKodForSadue", rows |-> rows] :
      rows \in {l \in ZcRowListsUpTo(MaxRecords) :
                  Len(l) <= WYSYLKICELINA_ZC_LOOKBACK_LIMIT} }

\* ---------------------------------------------------------------- KodSpec
KodInit ==
  /\ PoolInit
  /\ request \in KodRequests
  /\ reply = NoCall

ResolveKod ==
  /\ request.op = "resolveZgloszenieKodForSadue"
  /\ reply = NoCall
  /\ reply' = resolveZgloszenieKodForSadue(request.rows)
  /\ UNCHANGED <<poolVars, att, cli, sd, pc, lease, err, work, rb, recycleArg, request>>

KodNext == ResolveKod

KodSpec == KodInit /\ [][KodNext]_vars

KodResolved == request.op = "resolveZgloszenieKodForSadue" /\ reply # NoCall


\* ---------------------------------------------------------------- C21
\* the payload is a message of the kind
IsOfKind(xml, kind) == xml # <<>> /\ Head(xml) = kind

\* the payload that tells the kind of a record: its response when that is a
\* ZC429 or ZC428 message, its document otherwise
TellingPayload(row) ==
  IF IsOfKind(row.ODPOWIEDZXML, "9") \/ IsOfKind(row.ODPOWIEDZXML, "8")
  THEN row.ODPOWIEDZXML
  ELSE row.DOKUMENTXML

\* the examined records of the kind, by position (1 is the most recent)
RecordsOfKind(kind) ==
  {n \in 1..Len(request.rows) : IsOfKind(TellingPayload(request.rows[n]), kind)}

\* the result is of the kind `kod` and the payload, declaration type and MRN
\* are those of the most recent record in `records`
SuppliedByMostRecent(kod, records) ==
  LET n == CHOOSE m \in records : \A k \in records : m <= k
      xml == TellingPayload(request.rows[n])
  IN  /\ reply.zgloszenieKod = Text(kod)
      /\ reply.xmlDoc = Text(xml)
      /\ reply.typZgloszenia = Text(<<"t">> \o xml)
      /\ reply.mrn = Text(<<"m">> \o xml)

KindPreferred ==
  IF RecordsOfKind("9") # {} THEN SuppliedByMostRecent(ZC429, RecordsOfKind("9"))
  ELSE IF RecordsOfKind("8") # {} THEN SuppliedByMostRecent(ZC428, RecordsOfKind("8"))
  ELSE reply.zgloszenieKod = NullText

\* a record whose response is a ZC428 message and whose document is a ZC429
\* message: a record of two kinds
TwoKinds(row) == IsOfKind(row.ODPOWIEDZXML, "8") /\ IsOfKind(row.DOKUMENTXML, "9")

OneKindPerRecord == \A n \in 1..Len(request.rows) : ~TwoKinds(request.rows[n])

C21_MostRecentOfOneKind ==
  /\ KodResolved
  /\ OneKindPerRecord
  /\ RecordsOfKind("8") = {1, 2}
  /\ RecordsOfKind("9") = {}
  /\ reply.zgloszenieKod = Text(ZC428)
  /\ reply.xmlDoc = Text(TellingPayload(request.rows[1]))

\* Records of two kinds: the document of such a record is read only when an
\* earlier record has supplied a ZC428 message already, and then decides
\* the result.
TwoKindsDocumentDecides ==
  /\ KodResolved
  /\ Len(request.rows) = 2
  /\ ~TwoKinds(request.rows[1]) /\ TwoKinds(request.rows[2])
  /\ RecordsOfKind("9") = {}
  /\ reply.zgloszenieKod = Text(ZC429)
  /\ reply.xmlDoc = Text(request.rows[2].DOKUMENTXML)

TwoKindsDocumentUnread ==
  /\ KodResolved
  /\ Len(request.rows) = 1
  /\ TwoKinds(request.rows[1])
  /\ reply.zgloszenieKod = Text(ZC428)
  /\ reply.xmlDoc = Text(request.rows[1].ODPOWIEDZXML)
====
